---- MODULE Spec2Model ----
(***************************************************************************)
(* Model of src/app.py: the Meilisearch backup / restore tool.             *)
(*                                                                         *)
(*   backup_meilisearch   list indexes, then per index: settings, stats,   *)
(*                        paginated documents, files; then the zip         *)
(*   wait_for_task        the polling loop on one task                     *)
(*   restore_meilisearch  pass 1 (every index but `documents`), pass 2     *)
(*                        (`documents`)                                    *)
(*   run_backup / run_restore   the two front-end entry points             *)
(*                                                                         *)
(* A list of documents is kept run-length encoded: a sequence of runs      *)
(* [lo, hi, fields] standing for the documents numbered lo..hi, each       *)
(* having exactly the fields of `fields`.  len(), slicing and extend() are *)
(* computed on that encoding; DAt gives back the single document at a      *)
(* position, so that statements about the order and identity of documents  *)
(* are made document by document.                                          *)
(***************************************************************************)
EXTENDS Integers, Sequences, FiniteSets, TLC

VARIABLES
    pc,             \* position of the single thread of control
    url_key_given,  \* run_backup / run_restore: url and key (and file) supplied
    log_output,     \* the cumulative log, a sequence of entries
    trace,          \* history: the remote requests issued, in order, but for
                    \* the status queries of wait_for_task, kept in `wait`
    ret,            \* what the entry point returned: [zip, log]
    service,        \* backup source: the indexes the service holds
    envelope,       \* backup source: pages come as {results: [...]} or bare
    indexes,        \* backup: the list returned by GET /indexes
    idx,            \* backup: position in `indexes` of the index processed
    total_docs,     \* backup: numberOfDocuments read from the stats
    offset,         \* backup: offset of the next page request
    all_documents,  \* backup: documents accumulated for the current index
    docs_response,  \* backup: the last response to a page request
    fetched,        \* history: per index, the pages received, in request order
    files,          \* backup: what was written under meilisearch_backup/
    archive,        \* restore: the extracted zip file
    loc,            \* restore: the local variables of restore_meilisearch
    wait,           \* restore: the call of wait_for_task in progress, or the last;
                    \* `at` is the place in `trace` of the request it follows
    tasks,          \* target service: the tasks not yet seen in a terminal status
    abandoned,      \* history: the tasks whose status query failed
    target,         \* target service: the collections it holds, by name
    faults          \* restore: number of failing answers the service has given

\* the variables of restore_meilisearch and of the service it writes to
rvars == <<archive, loc, wait, tasks, abandoned, target, faults>>

vars == <<pc, url_key_given, log_output, trace, ret, service, envelope,
          indexes, idx, total_docs, offset, all_documents, docs_response,
          fetched, files, rvars>>

-----------------------------------------------------------------------------
(* Bounds of the model *)

\* the largest collection holds this many full pages
MaxFullPages == 2

\* one call of wait_for_task sees its task in a non-terminal status at most
\* this many times
MaxPolls == 1

\* the service gives at most this many failing answers in one run
MaxFaults == 2

(* Program constants *)

\* limit = 1000
limit == 1000

\* batch_size = 1000
batch_size == 1000

-----------------------------------------------------------------------------
(* Optional values: <<>> is None / no file, <<x>> is x *)

None == <<>>
Some(x) == <<x>>
IsSome(o) == o # <<>>
TheOf(o) == o[1]

Min(a, b) == IF a < b THEN a ELSE b

-----------------------------------------------------------------------------
(* Documents and lists of documents *)

\* the document numbered j that has the fields of `fields`; the value of
\* field f is the pair <<tag of f, j>>
Doc(fields, j) == [f \in DOMAIN fields |-> <<fields[f], j>>]

\* fields of a document as the service holds it
PlainFields == [id |-> "id", title |-> "title"]

RunLen(r) == r.hi - r.lo + 1

\* len(documents)
RECURSIVE DLen(_)
DLen(ds) == IF ds = <<>> THEN 0 ELSE RunLen(Head(ds)) + DLen(Tail(ds))

\* the document at position p (1-based) of a list
RECURSIVE DAt(_, _)
DAt(ds, p) ==
    IF p <= RunLen(Head(ds))
    THEN Doc(Head(ds).fields, Head(ds).lo + p - 1)
    ELSE DAt(Tail(ds), p - RunLen(Head(ds)))

\* xs.extend(ys) for one run: the run joins the last run of xs when it
\* continues it
DAppendRun(xs, r) ==
    IF xs # <<>> /\ xs[Len(xs)].fields = r.fields /\ xs[Len(xs)].hi + 1 = r.lo
    THEN [xs EXCEPT ![Len(xs)].hi = r.hi]
    ELSE Append(xs, r)

\* xs.extend(ys)
RECURSIVE DExtend(_, _)
DExtend(xs, ys) ==
    IF ys = <<>> THEN xs ELSE DExtend(DAppendRun(xs, Head(ys)), Tail(ys))

\* documents[a:b], 0 <= a <= b (Python slice: positions a .. b-1, clipped)
RECURSIVE DSlice(_, _, _)
DSlice(ds, a, b) ==
    IF ds = <<>> \/ b <= 0 THEN <<>>
    ELSE LET r == Head(ds)
             n == RunLen(r)
             rest == DSlice(Tail(ds), IF a > n THEN a - n ELSE 0, b - n)
         IN IF a >= n THEN rest
            ELSE DExtend(<<[r EXCEPT !.lo = r.lo + a,
                                     !.hi = Min(r.hi, r.lo + b - 1)]>>, rest)

\* the n documents 1..n of one shape
DocsOf(fields, n) ==
    IF n = 0 THEN <<>> ELSE <<[lo |-> 1, hi |-> n, fields |-> fields]>>

-----------------------------------------------------------------------------
(* The log and the request history *)

\* one entry of log_output: the message, the index and the number it names
L(ev, uid, n) == [ev |-> ev, uid |-> uid, n |-> n]

\* one remote request and its answer: method and endpoint, the index, two
\* numbers (offset and limit of a page request), the answer's status and
\* the kind of its body where the code looks at it
Req(op, uid, a, b, out, body) ==
    [op |-> op, uid |-> uid, a |-> a, b |-> b, out |-> out, body |-> body]

\* the answers to a request: a status code, or "exc", a network error raised
\* by the call
GetAnswers == {"200", "500", "exc"}

-----------------------------------------------------------------------------
(* The service a backup reads *)

Uids == {"alpha", "page", "documents"}

\* the indexes a service may list, in the order it lists them
UidLists == {<<>>, <<"alpha">>, <<"documents">>, <<"alpha", "page">>}

\* numbers of documents a collection may hold
DocCounts ==
    {0, 1, limit + limit \div 2} \cup
    UNION {{k * limit - 1, k * limit, k * limit + 1} : k \in 1..MaxFullPages}

\* the settings object the service holds for an index
SvcSettings(uid) ==
    IF uid = "documents"
    THEN [rankingRules |-> "v", stopWords |-> "empty", embedders |-> "v"]
    ELSE [rankingRules |-> "v", stopWords |-> "empty"]

\* the descriptor GET /indexes gives for an index
Descriptor(e) == [uid |-> e.uid, primaryKey |-> e.primaryKey]

\* the documents of an index, as the service holds them
SvcDocs(e) == DocsOf(PlainFields, e.n)

\* GET /indexes/{uid}/documents?offset&limit of a service that honours both
SvcPage(e, off, lim) == DSlice(SvcDocs(e), off, off + lim)

RECURSIVE TotalDocs(_)
TotalDocs(s) == IF s = <<>> THEN 0 ELSE Head(s).n + TotalDocs(Tail(s))

\* an index of the service: the primary key is set once a document is held
IndexEntry(uid, n) ==
    [uid |-> uid, primaryKey |-> IF n = 0 THEN None ELSE Some("id"), n |-> n]

\* the services a backup is run against: one index of any size, or several
\* indexes that together hold no more than a page and a half, and one more
Services ==
    {s \in UNION {{[j \in 1..Len(us) |-> IndexEntry(us[j], ns[j])] :
                     ns \in [1..Len(us) -> DocCounts]} : us \in UidLists} :
        Len(s) > 1 => TotalDocs(s) <= limit + limit \div 2 + 1}

-----------------------------------------------------------------------------
(* run_backup and backup_meilisearch *)

\* an exception leaves backup_meilisearch: run_backup's handler returns
\* (None, "Error during backup: ...") and the log built so far is dropped
BackupCrashed ==
    /\ pc' = "done"
    /\ ret' = [zip |-> None, log |-> <<L("Error during backup", "", 0)>>]

\* the bodies a 200 answer to a page request may carry: the page as a bare
\* array or as {results: [...]}, an object without results, a JSON value
\* that is neither, or text that is no JSON
PageBodies(page) ==
    {[kind |-> IF envelope THEN "results" ELSE "list", items |-> page],
     [kind |-> "dict", items |-> <<>>],
     [kind |-> "scalar", items |-> <<>>],
     [kind |-> "badjson", items |-> <<>>]}

NoBody == [kind |-> "none", items |-> <<>>]

\* the answers to a page request
PageAnswers(page) ==
    {[status |-> "500", body |-> NoBody]} \cup
    {[status |-> "200", body |-> b] : b \in PageBodies(page)}

ListRefused_Never(status) == FALSE

\* line 27: the list of indexes was refused
ListRefused(status) == status # "200"

Given_Never(status) == FALSE

\* lines 47, 59: the settings, or the stats, were given
Given(status) == status = "200"

NormalizePage_BareOnly(body, uid) ==
    IF body.kind = "badjson"
    THEN [ok |-> FALSE, documents |-> <<>>,
          log |-> <<L("Failed to parse JSON response", uid, 0)>>]
    ELSE IF body.kind # "list"
    THEN [ok |-> FALSE, documents |-> <<>>,
          log |-> <<L("Unexpected response format", uid, 0),
                    L("Sample of response", uid, 0)>>]
    ELSE [ok |-> TRUE, documents |-> body.items, log |-> <<>>]

\* lines 82-94: the page as a list, or the reason there is none
NormalizePage(body, uid) ==
    IF body.kind = "badjson"
    THEN [ok |-> FALSE, documents |-> <<>>,
          log |-> <<L("Failed to parse JSON response", uid, 0)>>]
    ELSE IF body.kind = "results"
    THEN [ok |-> TRUE, documents |-> body.items,
          log |-> <<L("Retrieved documents (using 'results' field)", uid,
                      DLen(body.items))>>]
    ELSE IF body.kind # "list"
    THEN [ok |-> FALSE, documents |-> <<>>,
          log |-> <<L("Unexpected response format", uid, 0),
                    L("Sample of response", uid, 0)>>]
    ELSE [ok |-> TRUE, documents |-> body.items, log |-> <<>>]

ShortPage_OrFull(documents) == DLen(documents) <= limit

\* line 103: the page is shorter than the page size
ShortPage(documents) == DLen(documents) < limit

Extended_AtFront(docs, documents) == DExtend(documents, docs)

\* line 100: all_documents.extend(documents)
Extended(docs, documents) == DExtend(docs, documents)

\* lines 77-106: one turn of the page loop on a response; `brk` says the loop
\* is left, `got` is the page when there is one
PageTurn(resp, uid, docs, off) ==
    IF resp.status # "200"
    THEN [brk |-> TRUE, all_documents |-> docs, offset |-> off, got |-> None,
          log |-> <<L("Failed to get documents", uid, 0)>>]
    ELSE LET norm == NormalizePage(resp.body, uid)
             documents == norm.documents
             grown == Extended(docs, documents)
         IN IF ~norm.ok
            THEN [brk |-> TRUE, all_documents |-> docs, offset |-> off,
                  got |-> None, log |-> norm.log]
            ELSE IF DLen(documents) = 0
            THEN [brk |-> TRUE, all_documents |-> docs, offset |-> off,
                  got |-> Some(documents),
                  log |-> norm.log \o <<L("No more documents to retrieve", uid, 0)>>]
            ELSE [brk |-> ShortPage(documents),
                  all_documents |-> grown,
                  offset |-> IF ShortPage(documents) THEN off ELSE off + limit,
                  got |-> Some(documents),
                  log |-> norm.log \o
                          <<L("Retrieved documents from index", uid, DLen(grown))>>]

\* lines 34-40: the head of the loop over the indexes, entered with the log
\* `lg` and the files `fs`: the next index is started, or the loop is left
BackupEnterIndex(j, ixs, lg, fs) ==
    IF j > Len(ixs)
    THEN /\ pc' = "b_zip"
         /\ log_output' = lg
         /\ files' = fs
         /\ idx' = j
    ELSE /\ pc' = "b_settings"
         /\ log_output' = Append(lg, L("Processing index", ixs[j].uid, 0))
         /\ files' = [u \in DOMAIN fs \cup {ixs[j].uid} |->
                        IF u \in DOMAIN fs THEN fs[u]
                        ELSE [settings |-> None, documents |-> None, info |-> None]]
         /\ idx' = j

\* lines 603-606: run_backup without url or key
RunBackupNoInput ==
    /\ pc = "run_backup"
    /\ ~url_key_given
    /\ pc' = "done"
    /\ ret' = [zip |-> None, log |-> <<L("Please provide both", "", 0)>>]
    /\ UNCHANGED <<rvars, url_key_given, log_output, trace, service, envelope, indexes,
                   idx, total_docs, offset, all_documents, docs_response,
                   fetched, files>>

\* lines 607-608, 25-40: GET /indexes
BackupList ==
    /\ pc = "run_backup"
    /\ url_key_given
    /\ \E out \in GetAnswers :
         /\ trace' = Append(trace, Req("GET /indexes", "", 0, 0, out, ""))
         /\ IF out = "exc"
            THEN /\ BackupCrashed
                 /\ UNCHANGED <<log_output, indexes, idx, files>>
            ELSE IF ListRefused(out)
            THEN /\ pc' = "done"
                 /\ ret' = [zip |-> None,
                            log |-> <<L("Failed to get indexes", "", 0)>>]
                 /\ UNCHANGED <<log_output, indexes, idx, files>>
            ELSE /\ indexes' = [j \in 1..Len(service) |-> Descriptor(service[j])]
                 /\ BackupEnterIndex(1, indexes',
                                     <<L("Found indexes", "", Len(indexes'))>>, files)
                 /\ UNCHANGED ret
    /\ UNCHANGED <<rvars, url_key_given, service, envelope, total_docs, offset,
                   all_documents, docs_response, fetched>>

\* lines 42-50: GET /indexes/{uid}/settings
BackupSettings ==
    /\ pc = "b_settings"
    /\ LET uid == indexes[idx].uid IN
       \E out \in GetAnswers :
         /\ trace' = Append(trace, Req("GET settings", uid, 0, 0, out, ""))
         /\ IF out = "exc"
            THEN /\ BackupCrashed
                 /\ UNCHANGED files
            ELSE /\ pc' = "b_stats"
                 /\ files' = IF Given(out)
                             THEN [files EXCEPT
                                     ![uid].settings = Some(SvcSettings(uid))]
                             ELSE files
                 /\ UNCHANGED ret
    /\ UNCHANGED <<rvars, url_key_given, log_output, service, envelope, indexes, idx,
                   total_docs, offset, all_documents, docs_response, fetched>>

\* lines 52-67: GET /indexes/{uid}/stats, and the page loop's variables
BackupStats ==
    /\ pc = "b_stats"
    /\ LET uid == indexes[idx].uid IN
       \E out \in GetAnswers :
         /\ trace' = Append(trace, Req("GET stats", uid, 0, 0, out, ""))
         /\ IF out = "exc"
            THEN /\ BackupCrashed
                 /\ UNCHANGED <<log_output, total_docs, offset, all_documents,
                                fetched>>
            ELSE /\ pc' = "b_page"
                 /\ total_docs' = IF Given(out) THEN service[idx].n ELSE 0
                 /\ log_output' =
                       IF Given(out)
                       THEN Append(log_output,
                                   L("Index has documents total", uid, service[idx].n))
                       ELSE log_output
                 /\ offset' = 0
                 /\ all_documents' = <<>>
                 /\ fetched' = [u \in DOMAIN fetched \cup {uid} |->
                                  IF u = uid THEN <<>> ELSE fetched[u]]
                 /\ UNCHANGED ret
    /\ UNCHANGED <<rvars, url_key_given, service, envelope, indexes, idx,
                   docs_response, files>>

\* lines 69-106: one page request and the turn of the loop on its answer
BackupPage ==
    /\ pc = "b_page"
    /\ LET uid == indexes[idx].uid
           asked == Append(log_output, L("Fetching documents", uid, offset))
       IN
       \/ /\ trace' = Append(trace, Req("GET documents", uid, offset, limit, "exc", ""))
          /\ BackupCrashed
          /\ UNCHANGED <<log_output, offset, all_documents, docs_response,
                         fetched>>
       \/ \E resp \in PageAnswers(SvcPage(service[idx], offset, limit)) :
            LET turn == PageTurn(resp, uid, all_documents, offset) IN
            /\ trace' = Append(trace, Req("GET documents", uid, offset, limit,
                                          resp.status, resp.body.kind))
            /\ docs_response' = resp
            /\ log_output' = asked \o turn.log
            /\ all_documents' = turn.all_documents
            /\ offset' = turn.offset
            /\ fetched' = IF IsSome(turn.got)
                           THEN [fetched EXCEPT ![uid] = Append(@, TheOf(turn.got))]
                           ELSE fetched
            /\ pc' = IF turn.brk THEN "b_save" ELSE "b_page"
            /\ UNCHANGED ret
    /\ UNCHANGED <<rvars, url_key_given, service, envelope, indexes, idx, total_docs,
                   files>>

BackupSave_DropsPartial ==
    /\ pc = "b_save"
    /\ LET uid == indexes[idx].uid
           failed == trace[Len(trace)].out # "200" \/
                     trace[Len(trace)].body \notin {"list", "results"}
       IN
       BackupEnterIndex(
           idx + 1, indexes,
           Append(log_output, L("Saving documents for index", uid, DLen(all_documents))),
           [files EXCEPT ![uid].documents =
                             Some(IF failed THEN <<>> ELSE all_documents),
                         ![uid].info = Some(indexes[idx])])
    /\ UNCHANGED <<rvars, url_key_given, trace, ret, service, envelope, indexes,
                   total_docs, offset, all_documents, docs_response, fetched>>

\* lines 108-115, 34-40: documents.json and info.json, then the next index
BackupSave ==
    /\ pc = "b_save"
    /\ LET uid == indexes[idx].uid IN
       BackupEnterIndex(
           idx + 1, indexes,
           Append(log_output, L("Saving documents for index", uid, DLen(all_documents))),
           [files EXCEPT ![uid].documents = Some(all_documents),
                         ![uid].info = Some(indexes[idx])])
    /\ UNCHANGED <<rvars, url_key_given, trace, ret, service, envelope, indexes,
                   total_docs, offset, all_documents, docs_response, fetched>>

\* lines 117-128, 608-612: the zip file and the return
BackupZip ==
    /\ pc = "b_zip"
    /\ pc' = "done"
    /\ log_output' = Append(log_output, L("Backup completed successfully", "", 0))
    /\ ret' = [zip |-> Some(files), log |-> log_output']
    /\ UNCHANGED <<rvars, url_key_given, trace, service, envelope, indexes, idx,
                   total_docs, offset, all_documents, docs_response, fetched,
                   files>>

NoFunction == [u \in {} |-> <<>>]

InitBackup ==
    /\ pc = "run_backup"
    /\ url_key_given \in BOOLEAN
    /\ log_output = <<>>
    /\ trace = <<>>
    /\ ret = [zip |-> None, log |-> <<>>]
    /\ service \in Services
    /\ envelope \in BOOLEAN
    /\ indexes = <<>>
    /\ idx = 0
    /\ total_docs = 0
    /\ offset = 0
    /\ all_documents = <<>>
    /\ docs_response = [status |-> "none", body |-> NoBody]
    /\ fetched = NoFunction
    /\ files = NoFunction
    /\ archive = [root |-> FALSE, dirs |-> <<>>, flat |-> <<>>]
    /\ loc = <<>>
    /\ wait = <<>>
    /\ tasks = <<>>
    /\ abandoned = {}
    /\ target = <<>>
    /\ faults = 0

NextBackup ==
    \/ RunBackupNoInput
    \/ BackupList
    \/ BackupSettings
    \/ BackupStats
    \/ BackupPage
    \/ BackupSave
    \/ BackupZip

SpecBackup == InitBackup /\ [][NextBackup]_vars

-----------------------------------------------------------------------------
(* The archive a restore reads *)

\* fields of a document of the legacy shape: no id, the key in _meilisearch_id
LegacyFields == ("_meilisearch_id" :> "_meilisearch_id") @@ [title |-> "title"]

\* fields of a document that carries vectors of its own
VectorFields == ("_vectors" :> "_vectors") @@ PlainFields

\* the n documents 1..n, the first k of them of one shape and the others of
\* another
DocsOfTwo(fields1, k, fields2, n) ==
    DExtend(DocsOf(fields1, Min(k, n)),
            IF n > k THEN <<[lo |-> k + 1, hi |-> n, fields |-> fields2]>> ELSE <<>>)

\* numbers of documents an archived collection may hold
ArchiveCounts ==
    {0, 1, batch_size + batch_size \div 2} \cup
    UNION {{k * batch_size, k * batch_size + 1} : k \in 1..(MaxFullPages - 1)}

\* settings.json of an index: some of the seven categories applied one by
\* one, one of them empty, and one category that is not among the seven
ArchivedSettings(uid) ==
    IF uid = "documents"
    THEN [rankingRules |-> "v", stopWords |-> "empty", embedders |-> "v"]
    ELSE [filterableAttributes |-> "v", rankingRules |-> "v",
          stopWords |-> "empty", typoTolerance |-> "v"]

\* the documents of an archived index: those of `page` begin with a document
\* of the legacy shape, those of `documents` with one that carries vectors
ArchivedDocs(uid, n) ==
    IF uid = "page" THEN DocsOfTwo(LegacyFields, 1, PlainFields, n)
    ELSE IF uid = "documents" THEN DocsOfTwo(VectorFields, 1, PlainFields, n)
    ELSE DocsOf(PlainFields, n)

\* the directory of an index as backup_meilisearch writes it
FullDir(uid, n) ==
    [uid |-> uid,
     info |-> Some([uid |-> uid,
                    primaryKey |-> IF n = 0 THEN None ELSE Some("id")]),
     settings |-> Some(ArchivedSettings(uid)),
     documents |-> Some(ArchivedDocs(uid, n))]

\* the directory of an index with nothing but its name
BareDir(uid) ==
    [uid |-> uid, info |-> None, settings |-> None, documents |-> None]

\* the archives a restore is run on: `root` says whether the zip file holds
\* a meilisearch_backup directory, `dirs` are its index directories in the
\* order iterdir() gives them, `flat` names the collections that have a
\* JSON file of their own at the top of the zip file, beside all_indexes.json
Archives ==
    {[root |-> FALSE, dirs |-> <<>>, flat |-> fl] : fl \in {<<>>, <<"alpha">>}} \cup
    {[root |-> TRUE, dirs |-> ds, flat |-> <<>>] : ds \in
        {<<>>, <<BareDir("alpha")>>, <<BareDir("page"), BareDir("documents")>>,
         <<FullDir("alpha", batch_size + 1), FullDir("page", 0)>>,
         <<FullDir("documents", 1), FullDir("page", 1)>>}
        \cup {<<FullDir(u, n)>> : u \in Uids, n \in ArchiveCounts}}

-----------------------------------------------------------------------------
(* wait_for_task *)

Terminal_OrProcessing(status) ==
    status \in {"succeeded", "failed", "canceled", "processing"}

\* line 136: the status ends the polling
Terminal(status) == status \in {"succeeded", "failed", "canceled"}

WaitTurn_AsksAgain(answer) ==
    IF answer.status = "200" /\ Terminal(answer.task.status)
    THEN [returns |-> TRUE, result |-> Some(answer.task)]
    ELSE [returns |-> FALSE, result |-> None]

\* lines 133-141: one turn of the polling loop on the answer to a status
\* query: the call returns `result`, or sleeps and asks again
WaitTurn(answer) ==
    IF answer.status = "200"
    THEN IF Terminal(answer.task.status)
         THEN [returns |-> TRUE, result |-> Some(answer.task)]
         ELSE [returns |-> FALSE, result |-> None]
    ELSE [returns |-> TRUE, result |-> None]

-----------------------------------------------------------------------------
(* restore_meilisearch: the code between two remote requests.  Each operator
   gives the place of the next request, the local variables and the log
   there; the place "done" is the return of log_output. *)

K(place, l, lg) == [pc |-> place, loc |-> l, log |-> lg]

\* the seven categories of the fallback, line 313
setting_types ==
    <<"displayedAttributes", "filterableAttributes", "sortableAttributes",
      "rankingRules", "stopWords", "synonyms", "distinctAttribute">>

\* the directory of an index in the archive
DirOf(uid) ==
    CHOOSE d \in {archive.dirs[j] : j \in 1..Len(archive.dirs)} : d.uid = uid

HasDir(uid) == \E j \in 1..Len(archive.dirs) : archive.dirs[j].uid = uid

\* the same record with one more field
WithField(fields, f, v) == (f :> v) @@ fields

EnsureId_Never(fields) == fields

\* lines 363-364: id of a document is copied from _meilisearch_id when it
\* has the second and not the first
EnsureId(fields) ==
    IF "_meilisearch_id" \in DOMAIN fields /\ "id" \notin DOMAIN fields
    THEN WithField(fields, "id", fields["_meilisearch_id"])
    ELSE fields

\* lines 362-364: `for doc in documents` over the runs of the list
EnsureIdAll(ds) ==
    DExtend(<<>>, [j \in 1..Len(ds) |-> [ds[j] EXCEPT !.fields = EnsureId(@)]])

\* lines 544-545: a document without _vectors gets {'default': None}
EnsureVectors(fields) ==
    IF "_vectors" \notin DOMAIN fields
    THEN WithField(fields, "_vectors", "default: None")
    ELSE fields

\* lines 543-545: `for doc in documents` over the runs of the list
EnsureVectorsAll(ds) ==
    DExtend(<<>>, [j \in 1..Len(ds) |-> [ds[j] EXCEPT !.fields = EnsureVectors(@)]])

WithoutEmbedders_Keeps(settings) == settings

\* lines 511-513: the settings without the embedders
WithoutEmbedders(settings) ==
    [c \in DOMAIN settings \ {"embedders"} |-> settings[c]]

StepSucceeded_NoneOk(task) ==
    ~IsSome(task) \/ TheOf(task).status = "succeeded"

\* lines 200, 243, ...: the step the task stands for has succeeded
StepSucceeded(task) == IsSome(task) /\ TheOf(task).status = "succeeded"

PrimaryKeyError_Any(task) == TRUE

\* line 392: the failed task names the primary key in its error
PrimaryKeyError(task) ==
    IsSome(task) /\ TheOf(task).error = "primary_key"

\* lines 580-588: the clean-up and the return
Finish(l, lg) ==
    K("done", l, lg \o <<L("Cleaned up temporary directory", "", 0),
                         L("Restore process completed!", "", 0)>>)

\* line 578
P2End(l, lg) ==
    Finish(l, Append(lg, L("Fix completed for documents index", "documents", 0)))

\* lines 549-551: the head of the batch loop of pass 2
EnterP2Batch(l, lg, i) ==
    IF i >= DLen(l.documents) THEN P2End(l, lg)
    ELSE LET batch == DSlice(l.documents, i, i + batch_size) IN
         K("p2_docs", [l EXCEPT !.bi = i, !.batch = batch],
           Append(lg, L("Adding batch of documents", l.index_uid, DLen(batch))))

NextP2Batch_Stops(l, lg) == P2End(l, lg)

\* line 572 and the next turn of the loop
NextP2Batch(l, lg) == EnterP2Batch(l, lg, l.bi + batch_size)

\* lines 534-551, 573-576
EnterP2Docs(l, lg) ==
    LET d == DirOf("documents") IN
    IF ~IsSome(d.documents)
    THEN P2End(l, Append(lg, L("Documents file not found for index", "documents", 0)))
    ELSE IF DLen(TheOf(d.documents)) = 0
    THEN P2End([l EXCEPT !.documents = <<>>],
               Append(lg, L("No documents found for index", "documents", 0)))
    ELSE EnterP2Batch(
             [l EXCEPT !.documents = EnsureVectorsAll(TheOf(d.documents))],
             Append(lg, L("Adding null vector embeddings to documents",
                          "documents", 0)),
             0)

\* lines 504-515
EnterP2Settings(l, lg) ==
    LET d == DirOf("documents") IN
    IF ~IsSome(d.settings) THEN EnterP2Docs(l, lg)
    ELSE LET settings == TheOf(d.settings) IN
         K("p2_settings",
           [l EXCEPT !.settings = WithoutEmbedders(settings)],
           IF "embedders" \in DOMAIN settings
           THEN Append(lg, L("Removing embedders configuration", "documents", 0))
           ELSE lg)

\* lines 470-483
EnterP2Create(l, lg) ==
    K("p2_create", l, Append(lg, L("Creating new index", "documents", 0)))

P2Abort_GoesOn(l, lg) == EnterP2Settings(l, lg)

\* lines 465, 468, 499, 502: `return log_output` where the delete or the
\* create of pass 2 has failed
P2Abort(l, lg) == K("done", l, lg)

\* lines 442-449
EnterP2(l, lg) ==
    LET lg1 == Append(lg, L("Regular indexes restore completed", "", 0)) IN
    IF HasDir("documents")
    THEN K("p2_check", [l EXCEPT !.index_uid = "documents"],
           Append(lg1, L("Fixing documents index specifically", "documents", 0)))
    ELSE Finish(l, lg1)

\* lines 175-188: the head of the loop of pass 1 at the i-th directory
RECURSIVE EnterIndex(_, _, _)
EnterIndex(l, lg, i) ==
    IF i > Len(archive.dirs) THEN EnterP2([l EXCEPT !.i = i], lg)
    ELSE LET uid == archive.dirs[i].uid
             lg1 == Append(lg, L("Restoring index", uid, 0))
         IN IF uid = "documents"
            THEN EnterIndex(l, Append(lg1, L("Skipping 'documents' index", uid, 0)),
                            i + 1)
            ELSE K("p1_check", [l EXCEPT !.i = i, !.index_uid = uid], lg1)

NextIndex_Stops(l, lg) == EnterP2(l, lg)

\* `continue` in the loop of pass 1
NextIndex(l, lg) == EnterIndex(l, lg, l.i + 1)

\* lines 368-370: the head of the batch loop of pass 1
EnterBatch(l, lg, i) ==
    IF i >= DLen(l.documents) THEN NextIndex(l, lg)
    ELSE LET batch == DSlice(l.documents, i, i + batch_size) IN
         K("p1_docs", [l EXCEPT !.bi = i, !.batch = batch],
           Append(lg, L("Adding batch of documents", l.index_uid, DLen(batch))))

NextBatch_SkipsOne(l, lg) == EnterBatch(l, lg, l.bi + batch_size + 1)

NextBatch_Again(l, lg) == EnterBatch(l, lg, l.bi)

\* line 436 and the next turn of the loop
NextBatch(l, lg) == EnterBatch(l, lg, l.bi + batch_size)

\* lines 351-368, 437-438
EnterDocs(l, lg) ==
    LET d == DirOf(l.index_uid) IN
    IF ~IsSome(d.documents) THEN NextIndex(l, lg)
    ELSE IF DLen(TheOf(d.documents)) = 0
    THEN NextIndex([l EXCEPT !.documents = <<>>],
                   Append(lg, L("No documents found for index", l.index_uid, 0)))
    ELSE IF l.index_uid = "page"
    THEN EnterBatch([l EXCEPT !.documents = EnsureIdAll(TheOf(d.documents))],
                    Append(lg, L("Special handling for page index documents",
                                 "page", 0)),
                    0)
    ELSE EnterBatch([l EXCEPT !.documents = TheOf(d.documents)], lg, 0)

EnterSetting_NoSkip(l, lg, k) ==
    IF k > Len(setting_types) THEN EnterDocs(l, lg)
    ELSE K("p1_setting", [l EXCEPT !.st = k], lg)

\* lines 323-325: the head of the loop over the categories at the k-th
RECURSIVE EnterSetting(_, _, _)
EnterSetting(l, lg, k) ==
    IF k > Len(setting_types) THEN EnterDocs(l, lg)
    ELSE IF setting_types[k] \in DOMAIN l.settings
            /\ l.settings[setting_types[k]] # "empty"
    THEN K("p1_setting", [l EXCEPT !.st = k], lg)
    ELSE EnterSetting(l, lg, k + 1)

\* lines 282-288
EnterSettings(l, lg) ==
    LET d == DirOf(l.index_uid) IN
    IF IsSome(d.settings)
    THEN K("p1_settings", [l EXCEPT !.settings = TheOf(d.settings)], lg)
    ELSE EnterDocs(l, lg)

AfterCheck_DeletesAny(l, lg, status) ==
    LET l1 == [l EXCEPT !.check_status = status] IN
    IF status = "200"
    THEN K("p1_delete", l1,
           Append(lg, L("Special handling for index: deleting existing index",
                        l.index_uid, 0)))
    ELSE IF status = "404" THEN K("p1_create", l1, lg)
    ELSE EnterSettings(l1, Append(lg, L("Index already exists", l.index_uid, 0)))

\* lines 190-193, 213, 279-280: what follows the existence check
AfterCheck(l, lg, status) ==
    LET l1 == [l EXCEPT !.check_status = status] IN
    IF l.index_uid = "page" /\ status = "200"
    THEN K("p1_delete", l1,
           Append(lg, L("Special handling for index: deleting existing index",
                        l.index_uid, 0)))
    ELSE IF status = "404" THEN K("p1_create", l1, lg)
    ELSE EnterSettings(l1, Append(lg, L("Index already exists", l.index_uid, 0)))

AfterP2Check_NoCreate(l, lg, status) ==
    LET l1 == [l EXCEPT !.check_status = status] IN
    IF status = "200"
    THEN K("p2_delete", l1, Append(lg, L("Deleting existing index", "documents", 0)))
    ELSE EnterP2Settings(l1, lg)

\* lines 451-453, 470: what follows the existence check of pass 2
AfterP2Check(l, lg, status) ==
    LET l1 == [l EXCEPT !.check_status = status] IN
    IF status = "200"
    THEN K("p2_delete", l1, Append(lg, L("Deleting existing index", "documents", 0)))
    ELSE EnterP2Create(l1, lg)

\* lines 215-229, 252-257: the body of the create request of pass 1
CreateData(uid) ==
    LET d == DirOf(uid)
        archived == IF IsSome(d.info) THEN TheOf(d.info).primaryKey ELSE None
    IN [uid |-> uid,
        primaryKey |-> IF uid = "page" /\ ~IsSome(archived) THEN Some("id")
                       ELSE archived]

\* lines 470-481: the body of the create request of pass 2
P2CreateData ==
    LET d == DirOf("documents") IN
    [uid |-> "documents",
     primaryKey |-> IF IsSome(d.info) THEN TheOf(d.info).primaryKey ELSE None]

-----------------------------------------------------------------------------
(* restore_meilisearch: what follows the answer to a request *)

\* the place of an exception that no handler of restore_meilisearch catches
Crash(l, lg) == K("crashed", l, lg)

AcceptedAt_OkOnly(site, status) == status = "200"

\* lines 195, 296, 333, 401, 456, 522 accept 200 and 202; lines 237, 265,
\* 379, 417, 490, 559 accept 201 as well
AcceptedAt(site, status) ==
    IF site \in {"p1_create", "p1_docs", "p1_retry", "p2_create", "p2_docs"}
    THEN status \in {"201", "200", "202"}
    ELSE status \in {"200", "202"}

\* lines 299, 335, 382: the sites that look whether a task id came
ChecksHandle(site) == site \in {"p1_settings", "p1_setting", "p1_docs"}

HasTask_Never(task_id) == FALSE

\* lines 299, 335, 382: task_id is not None
HasTask(task_id) == IsSome(task_id)

\* the log entry written before wait_for_task is called
EnqueuedEvent(site) ==
    CASE site \in {"p1_delete", "p2_delete"} -> "Index deletion enqueued"
      [] site \in {"p1_create", "p2_create"} -> "Index creation enqueued"
      [] site \in {"p1_settings", "p2_settings"} -> "Settings update enqueued"
      [] site = "p1_setting" -> "Setting update enqueued"
      [] site = "p1_patch" -> "Index update enqueued"
      [] OTHER -> "Document addition enqueued"

\* what the caller does with the value wait_for_task returned
AfterWait(site, l, lg, task) ==
    LET uid == l.index_uid
        ok == StepSucceeded(task)
    IN CASE site = "p1_delete" ->          \* lines 199-210
              IF ok THEN K("p1_create", [l EXCEPT !.check_status = "404"],
                           Append(lg, L("Deleted index", uid, 0)))
              ELSE NextIndex(l, Append(lg, L("Failed to delete index", uid, 0)))
         [] site = "p1_create" ->          \* lines 242-247, 270-275
              IF ok THEN EnterSettings(l, Append(lg, L("Created index", uid, 0)))
              ELSE NextIndex(l, Append(lg, L("Failed to create index", uid, 0)))
         [] site = "p1_settings" ->        \* lines 301-305
              EnterDocs(l, Append(lg, L(IF ok THEN "Applied all settings to index"
                                        ELSE "Failed to apply all settings to index",
                                        uid, 0)))
         [] site = "p1_setting" ->         \* lines 337-341
              EnterSetting(l, Append(lg, L(IF ok THEN "Applied setting"
                                           ELSE "Failed to apply setting", uid, l.st)),
                           l.st + 1)
         [] site = "p1_docs" ->            \* lines 385-393
              IF ok THEN NextBatch(l, Append(lg, L("Successfully added batch", uid, 0)))
              ELSE LET lg1 == Append(lg, L("Failed to add documents", uid, 0)) IN
                   IF uid = "page" /\ PrimaryKeyError(task)
                   THEN K("p1_patch", l,
                          Append(lg1, L("Attempting to update page index", uid, 0)))
                   ELSE NextBatch(l, lg1)
         [] site = "p1_patch" ->           \* lines 404-409, 426-427
              IF ok THEN K("p1_retry", l,
                           lg \o <<L("Updated index with primary key 'id'", uid, 0),
                                   L("Trying to add documents again", uid, 0)>>)
              ELSE NextBatch(l, Append(lg, L("Failed to update index", uid, 0)))
         [] site = "p1_retry" ->           \* lines 421-425
              NextBatch(l, Append(lg, L(IF ok THEN "Successfully added batch on retry"
                                        ELSE "Failed to add documents on retry",
                                        uid, 0)))
         [] site = "p2_delete" ->          \* lines 460-465
              IF ok THEN EnterP2Create(l, Append(lg, L("Deleted index", uid, 0)))
              ELSE P2Abort(l, Append(lg, L("Failed to delete index", uid, 0)))
         [] site = "p2_create" ->          \* lines 494-499
              IF ok THEN EnterP2Settings(l, Append(lg, L("Created index", uid, 0)))
              ELSE P2Abort(l, Append(lg, L("Failed to create index", uid, 0)))
         [] site = "p2_settings" ->        \* lines 526-530
              EnterP2Docs(l, Append(lg, L(IF ok THEN "Applied settings to index"
                                          ELSE "Failed to apply settings to index",
                                          uid, 0)))
         [] OTHER ->                       \* p2_docs, lines 563-567
              NextP2Batch(l, Append(lg, L(IF ok THEN "Successfully added batch"
                                          ELSE "Failed to add documents", uid, 0)))

\* what the caller does when the request itself is refused
Rejected(site, l, lg) ==
    LET uid == l.index_uid IN
    CASE site = "p1_delete" ->             \* lines 205-207
           NextIndex(l, Append(lg, L("Failed to delete index", uid, 0)))
      [] site = "p1_create" ->             \* lines 248-250, 276-278
           NextIndex(l, Append(lg, L("Failed to create index", uid, 0)))
      [] site = "p1_settings" ->           \* lines 308-323
           EnterSetting(l, lg \o <<L("Failed to apply all settings at once", uid, 0),
                                   L("Trying to apply settings individually", uid, 0)>>,
                        1)
      [] site = "p1_setting" ->            \* lines 344-345
           EnterSetting(l, Append(lg, L("Failed to apply setting", uid, l.st)),
                        l.st + 1)
      [] site = "p1_docs" ->               \* lines 430-431
           NextBatch(l, Append(lg, L("Failed to add documents", uid, 0)))
      [] site \in {"p1_patch", "p1_retry"} -> \* lines 401, 417 have no else
           NextBatch(l, lg)
      [] site = "p2_delete" ->             \* lines 466-468
           P2Abort(l, Append(lg, L("Failed to delete index", uid, 0)))
      [] site = "p2_create" ->             \* lines 500-502
           P2Abort(l, Append(lg, L("Failed to create index", uid, 0)))
      [] site = "p2_settings" ->           \* lines 531-532
           EnterP2Docs(l, Append(lg, L("Failed to apply settings to index", uid, 0)))
      [] OTHER ->                          \* p2_docs, lines 568-569
           NextP2Batch(l, Append(lg, L("Failed to add documents", uid, 0)))

\* lines 306-307, 342-343, 428-429: accepted, and no task id in the answer
NoHandle(site, l, lg) ==
    LET uid == l.index_uid IN
    CASE site = "p1_settings" ->
           EnterDocs(l, Append(lg, L("Applied settings but no task ID was returned",
                                     uid, 0)))
      [] site = "p1_setting" ->
           EnterSetting(l, Append(lg, L("Applied setting but no task ID was returned",
                                        uid, l.st)),
                        l.st + 1)
      [] OTHER ->
           NextBatch(l, Append(lg, L("Documents added but no task ID was returned",
                                     uid, 0)))

\* an exception raised by a request of the site, or by a status query of
\* its task: lines 348-349, 346-347 and 432-433 catch it, nothing else does
Raised(site, l, lg) ==
    CASE site = "p1_settings" ->
           EnterDocs(l, Append(lg, L("Error processing settings file", l.index_uid, 0)))
      [] site = "p1_setting" ->
           EnterSetting(l, Append(lg, L("Error applying setting", l.index_uid, l.st)),
                        l.st + 1)
      [] site \in {"p1_docs", "p1_patch", "p1_retry"} ->
           NextBatch(l, Append(lg, L("Error adding documents batch", l.index_uid, 0)))
      [] OTHER -> Crash(l, lg)

-----------------------------------------------------------------------------
(* The target service *)

\* the answers to a request that changes the service: accepted with a task
\* handle, accepted without one, refused, or a network error
MutAnswers ==
    {[status |-> "202", handle |-> TRUE], [status |-> "202", handle |-> FALSE],
     [status |-> "500", handle |-> FALSE], [status |-> "exc", handle |-> FALSE]}

\* an answer that counts as a failure of the service
FaultyAnswer(ans) == ans.status \in {"500", "exc"} \/ ~ans.handle

NoTask == [taskUid |-> 0, status |-> "none", error |-> "null"]

\* the terminal statuses of a task, and the errors each carries; a task of a
\* document addition may fail on the primary key
TaskEnds(site) ==
    {[status |-> "succeeded", error |-> "null"],
     [status |-> "canceled", error |-> "null"],
     [status |-> "failed", error |-> "other"]} \cup
    (IF site \in {"p1_docs", "p1_retry", "p2_docs"}
     THEN {[status |-> "failed", error |-> "primary_key"]} ELSE {})

\* a collection the target service does not hold
Absent == [exists |-> FALSE, made |-> FALSE, docs |-> {}, settings |-> {}]

\* a collection the target holds before the restore, without documents; the
\* one named documents has embedders configured
Present(uid) ==
    [exists |-> TRUE, made |-> FALSE, docs |-> {},
     settings |-> IF uid = "documents" THEN {"embedders"} ELSE {}]

\* the target services an archive is restored to: the collections of the
\* archive are all held or none is, and no other collection is
Targets(a) ==
    LET archived == {a.dirs[j].uid : j \in 1..Len(a.dirs)} IN
    {[u \in Uids |-> IF u \in held THEN Present(u) ELSE Absent] :
        held \in {{}, archived}}

\* the collection `col` after the task of the request of `site`, sent with
\* the local variables l, has succeeded: `made` says that a create request
\* of this run made the collection, `docs` holds offset and size of the
\* batches added, `settings` the categories set; the service makes a
\* collection that gets settings or documents and is not held
Effect(site, col, l) ==
    CASE site \in {"p1_delete", "p2_delete"} -> Absent
      [] site \in {"p1_create", "p2_create"} ->
           [exists |-> TRUE, made |-> TRUE, docs |-> {}, settings |-> {}]
      [] site \in {"p1_settings", "p2_settings"} ->
           [col EXCEPT !.exists = TRUE, !.settings = @ \cup DOMAIN l.settings]
      [] site = "p1_setting" ->
           [col EXCEPT !.exists = TRUE, !.settings = @ \cup {setting_types[l.st]}]
      [] site = "p1_patch" -> col
      [] OTHER ->
           [col EXCEPT !.exists = TRUE, !.docs = @ \cup {<<l.bi, DLen(l.batch)>>}]

\* the task of a create request fails when the collection is held already
CanSucceed(site) ==
    site \in {"p1_create", "p2_create"} => ~target[loc.index_uid].exists

\* the answers to GET /indexes/{uid}: 200 when the collection is held, 404
\* when it is not, a refusal, or a network error
CheckAnswers(uid) ==
    {IF target[uid].exists THEN "200" ELSE "404", "500", "exc"}

\* the answers to GET /tasks/{id}: the task in a status it may have moved
\* to, a refusal, or a network error; there is no task None
PollAnswers(id, site, polls) ==
    IF ~IsSome(id) THEN {[status |-> "404", task |-> NoTask]}
    ELSE {[status |-> "500", task |-> NoTask], [status |-> "exc", task |-> NoTask]}
         \cup {[status |-> "200",
                task |-> [taskUid |-> TheOf(id), status |-> e.status,
                          error |-> e.error]] :
                 e \in {x \in TaskEnds(site) :
                          x.status = "succeeded" => CanSucceed(site)}}
         \cup {[status |-> "200",
                task |-> [taskUid |-> TheOf(id), status |-> st, error |-> "null"]] :
                 st \in IF polls >= MaxPolls THEN {}
                        ELSE IF tasks.open[TheOf(id)] = "processing"
                        THEN {"processing"}
                        ELSE {"enqueued", "processing"}}

\* an answer that counts as a failure of the service: a refusal, a network
\* error, or a task that failed where it could have succeeded
FaultyPoll(answer, site) ==
    \/ answer.status \in {"500", "exc"}
    \/ /\ answer.status = "200"
       /\ answer.task.status \in {"failed", "canceled"}
       /\ CanSucceed(site) \/ answer.task.status = "canceled"

\* the open tasks with one more, enqueued
WithTask(open, id) ==
    [t \in DOMAIN open \cup {id} |-> IF t = id THEN "enqueued" ELSE open[t]]

\* the open tasks after a status query of task id was answered: a task seen
\* in a terminal status is open no more
AfterPoll(open, id, answer) ==
    IF ~IsSome(id) \/ answer.status # "200" THEN open
    ELSE IF answer.task.status \in {"succeeded", "failed", "canceled"}
    THEN [t \in DOMAIN open \ {TheOf(id)} |-> open[t]]
    ELSE [open EXCEPT ![TheOf(id)] = answer.task.status]

-----------------------------------------------------------------------------
(* run_restore and restore_meilisearch: the steps *)

\* the step ends at the place k
Goto(k) ==
    /\ pc' = IF k.pc = "crashed" THEN "done" ELSE k.pc
    /\ loc' = k.loc
    /\ log_output' = k.log
    /\ ret' = IF k.pc = "crashed"
              THEN [zip |-> None, log |-> <<L("Error during restore", "", 0)>>]
              ELSE IF k.pc = "done" THEN [zip |-> None, log |-> k.log]
              ELSE ret

bvars == <<service, envelope, indexes, idx, total_docs, offset, all_documents,
           docs_response, fetched, files>>

\* lines 629-631: run_restore without url, key or file
RunRestoreNoInput ==
    /\ pc = "run_restore"
    /\ ~url_key_given
    /\ pc' = "done"
    /\ ret' = [zip |-> None, log |-> <<L("Please provide", "", 0)>>]
    /\ UNCHANGED <<url_key_given, log_output, trace, bvars, rvars>>

FindBackupDir_Always(a) == TRUE

\* lines 160-166: a directory whose name holds meilisearch_backup is among
\* the entries at the top of the extracted archive
FindBackupDir(a) == a.root

\* lines 633-634, 145-188: the archive is extracted and its directory looked
\* for; pass 1 begins
RestoreStart ==
    /\ pc = "run_restore"
    /\ url_key_given
    /\ IF ~FindBackupDir(archive)
       THEN /\ pc' = "done"
            /\ ret' = [zip |-> None,
                       log |-> <<L("Error: Could not find meilisearch_backup directory",
                                   "", 0)>>]
            /\ log_output' = <<L("Extracting backup", "", 0)>>
            /\ UNCHANGED loc
       ELSE Goto(EnterIndex(loc,
                            <<L("Extracting backup", "", 0),
                              L("Found indexes to restore", "", Len(archive.dirs))>>,
                            1))
    /\ UNCHANGED <<url_key_given, trace, bvars, archive, wait, tasks, abandoned,
                   target, faults>>

\* lines 188 and 451: GET /indexes/{uid} and what follows its answer
Check(site) ==
    /\ \E status \in CheckAnswers(loc.index_uid) :
         /\ status \in {"500", "exc"} => faults < MaxFaults
         /\ faults' = IF status \in {"500", "exc"} THEN faults + 1 ELSE faults
         /\ trace' = Append(trace, Req("GET index", loc.index_uid, 0, 0, status, ""))
         /\ IF status = "exc" THEN Goto(Crash(loc, log_output))
            ELSE IF site = "p1_check" THEN Goto(AfterCheck(loc, log_output, status))
            ELSE Goto(AfterP2Check(loc, log_output, status))
    /\ UNCHANGED <<url_key_given, bvars, archive, wait, tasks, abandoned, target>>

\* a request that changes the service, at the place `site`: the request, and
\* on acceptance the call of wait_for_task
Mutate(site, op, a, b, body) ==
    /\ \E ans \in MutAnswers :
         /\ FaultyAnswer(ans) => faults < MaxFaults
         /\ faults' = IF FaultyAnswer(ans) THEN faults + 1 ELSE faults
         /\ trace' = Append(trace, Req(op, loc.index_uid, a, b, ans.status, body))
         /\ IF ans.status = "exc"
            THEN Goto(Raised(site, loc, log_output)) /\ UNCHANGED <<wait, tasks>>
            ELSE IF ~AcceptedAt(site, ans.status)
            THEN Goto(Rejected(site, loc, log_output)) /\ UNCHANGED <<wait, tasks>>
            ELSE LET task_id == IF ans.handle THEN Some(tasks.next) ELSE None
                     l == [loc EXCEPT !.task_id = task_id]
                 IN /\ tasks' = IF ans.handle
                                THEN [next |-> tasks.next + 1,
                                      open |-> WithTask(tasks.open, tasks.next)]
                                ELSE tasks
                    /\ IF ChecksHandle(site) /\ ~HasTask(task_id)
                       THEN Goto(NoHandle(site, l, log_output)) /\ UNCHANGED wait
                       ELSE /\ Goto(K("wait", l,
                                      Append(log_output,
                                             L(EnqueuedEvent(site), loc.index_uid, 0))))
                            /\ wait' = [id |-> task_id, site |-> site, polls |-> 0,
                                        answer |-> [status |-> "none", task |-> NoTask],
                                        returned |-> FALSE, result |-> None,
                                        mark |-> 0, at |-> Len(trace) + 1]
    /\ UNCHANGED <<url_key_given, bvars, archive, abandoned, target>>

\* the body of a settings request, as far as the embedders go
SettingsBody(settings) == IF "embedders" \in DOMAIN settings THEN "embedders" ELSE ""

PrimaryKeyOf(create_data) ==
    IF IsSome(create_data.primaryKey) THEN TheOf(create_data.primaryKey) ELSE ""

\* line 188
RestoreCheck ==
    /\ pc = "p1_check"
    /\ Check("p1_check")

\* line 193
RestoreDelete ==
    /\ pc = "p1_delete"
    /\ Mutate("p1_delete", "DELETE index", 0, 0, "")

\* lines 231-235, 259-263
RestoreCreate ==
    /\ pc = "p1_create"
    /\ Mutate("p1_create", "POST index", 0, 0, PrimaryKeyOf(CreateData(loc.index_uid)))

\* lines 290-294
RestoreSettings ==
    /\ pc = "p1_settings"
    /\ Mutate("p1_settings", "PATCH settings", 0, 0, SettingsBody(loc.settings))

\* lines 327-331
RestoreSetting ==
    /\ pc = "p1_setting"
    /\ Mutate("p1_setting", "PUT setting", loc.st, 0, setting_types[loc.st])

\* lines 373-377
RestoreDocs ==
    /\ pc = "p1_docs"
    /\ Mutate("p1_docs", "POST documents", loc.bi, DLen(loc.batch), "")

\* lines 395-399
RestorePatch ==
    /\ pc = "p1_patch"
    /\ Mutate("p1_patch", "PATCH index", 0, 0, "id")

\* lines 411-415
RestoreRetry ==
    /\ pc = "p1_retry"
    /\ Mutate("p1_retry", "POST documents", loc.bi, DLen(loc.batch), "retry")

\* line 451
Restore2Check ==
    /\ pc = "p2_check"
    /\ Check("p2_check")

\* line 454
Restore2Delete ==
    /\ pc = "p2_delete"
    /\ Mutate("p2_delete", "DELETE index", 0, 0, "")

\* lines 484-488
Restore2Create ==
    /\ pc = "p2_create"
    /\ Mutate("p2_create", "POST index", 0, 0, PrimaryKeyOf(P2CreateData))

\* lines 516-520
Restore2Settings ==
    /\ pc = "p2_settings"
    /\ Mutate("p2_settings", "PATCH settings", 0, 0, SettingsBody(loc.settings))

\* lines 553-557
Restore2Docs ==
    /\ pc = "p2_docs"
    /\ Mutate("p2_docs", "POST documents", loc.bi, DLen(loc.batch), "")

\* lines 132-141: one status query of wait_for_task and the turn of its loop;
\* when the call returns, the caller goes on to its next request
Poll ==
    /\ pc = "wait"
    /\ \E answer \in PollAnswers(wait.id, wait.site, wait.polls) :
         LET turn == WaitTurn(answer)
             asked == [wait EXCEPT !.polls = Min(@ + 1, MaxPolls + 1),
                                   !.answer = answer,
                                   !.mark = Len(log_output)]
         IN
         /\ FaultyPoll(answer, wait.site) => faults < MaxFaults
         /\ faults' = IF FaultyPoll(answer, wait.site) THEN faults + 1 ELSE faults
         /\ target' = IF IsSome(wait.id) /\ answer.status = "200"
                         /\ answer.task.status = "succeeded"
                      THEN [target EXCEPT ![loc.index_uid] =
                                              Effect(wait.site, @, loc)]
                      ELSE target
         /\ tasks' = [tasks EXCEPT !.open = AfterPoll(@, wait.id, answer)]
         /\ abandoned' = IF IsSome(wait.id) /\ answer.status # "200"
                         THEN abandoned \cup {TheOf(wait.id)} ELSE abandoned
         /\ IF answer.status = "exc"
            THEN /\ wait' = asked
                 /\ Goto(Raised(wait.site, loc, log_output))
            ELSE IF turn.returns
            THEN /\ wait' = [asked EXCEPT !.returned = TRUE, !.result = turn.result]
                 /\ Goto(AfterWait(wait.site, loc, log_output, turn.result))
            ELSE /\ wait' = asked
                 /\ UNCHANGED <<pc, loc, log_output, ret>>
    /\ UNCHANGED <<url_key_given, trace, bvars, archive>>

NoWait ==
    [id |-> None, site |-> "", polls |-> 0,
     answer |-> [status |-> "none", task |-> NoTask],
     returned |-> FALSE, result |-> None, mark |-> 0, at |-> 0]

NoLocals ==
    [i |-> 0, index_uid |-> "", check_status |-> "", settings |-> <<>>, st |-> 0,
     documents |-> <<>>, bi |-> 0, batch |-> <<>>, task_id |-> None]

InitRestore ==
    /\ pc = "run_restore"
    /\ url_key_given \in BOOLEAN
    /\ log_output = <<>>
    /\ trace = <<>>
    /\ ret = [zip |-> None, log |-> <<>>]
    /\ service = <<>>
    /\ envelope = FALSE
    /\ indexes = <<>>
    /\ idx = 0
    /\ total_docs = 0
    /\ offset = 0
    /\ all_documents = <<>>
    /\ docs_response = [status |-> "none", body |-> NoBody]
    /\ fetched = NoFunction
    /\ files = NoFunction
    /\ archive \in Archives
    /\ loc = NoLocals
    /\ wait = NoWait
    /\ tasks = [next |-> 1, open |-> NoFunction]
    /\ abandoned = {}
    /\ target \in Targets(archive)
    /\ faults = 0

NextRestore ==
    \/ RunRestoreNoInput
    \/ RestoreStart
    \/ RestoreCheck
    \/ RestoreDelete
    \/ RestoreCreate
    \/ RestoreSettings
    \/ RestoreSetting
    \/ RestoreDocs
    \/ RestorePatch
    \/ RestoreRetry
    \/ Restore2Check
    \/ Restore2Delete
    \/ Restore2Create
    \/ Restore2Settings
    \/ Restore2Docs
    \/ Poll

SpecRestore == InitRestore /\ [][NextRestore]_vars

\* a restore of the archive of documents and page, to a service that holds
\* both, that is not left unfinished: restore_meilisearch is one sequential
\* call, and each of its requests is answered or raises
InitRestoreLive ==
    /\ InitRestore
    /\ archive.dirs = <<FullDir("documents", 1), FullDir("page", 1)>>
    /\ target["page"].exists

SpecRestoreLive ==
    InitRestoreLive /\ [][NextRestore]_vars /\ WF_vars(NextRestore)

-----------------------------------------------------------------------------
(* A backup whose zip file is restored *)

\* the services of a round trip: the collection documents with one
\* document, a collection with one document more than a page and a batch,
\* and two collections with one document each
RoundTripServices ==
    {s \in Services :
        \/ Len(s) = 1 /\ s[1].n = IF s[1].uid = "documents" THEN 1 ELSE limit + 1
        \/ Len(s) = 2 /\ s[1].n = 1 /\ s[2].n = 1}

\* the requests of the backup that were refused or answered with a body
\* that is no page
BackupFaults ==
    {k \in 1..Len(trace) :
        \/ trace[k].out # "200"
        \/ trace[k].op = "GET documents" /\ trace[k].body \notin {"list", "results"}}

\* the orders iterdir() may give the directories named in S
Orders(S) ==
    {o \in [1..Cardinality(S) -> S] : \A j, k \in 1..Cardinality(S) :
                                         o[j] = o[k] => j = k}

\* lines 117-123 and 157-171: the zip file holds the files written, under
\* meilisearch_backup/{uid}/; extracted, a directory is there for every
\* index with a file, and meilisearch_backup itself when there is any file
Unzip(zip, order) ==
    LET kept == SelectSeq(order, LAMBDA u : \/ IsSome(zip[u].info)
                                            \/ IsSome(zip[u].settings)
                                            \/ IsSome(zip[u].documents))
    IN [root |-> kept # <<>>,
        flat |-> <<>>,
        dirs |-> [j \in 1..Len(kept) |->
                     [uid |-> kept[j], info |-> zip[kept[j]].info,
                      settings |-> zip[kept[j]].settings,
                      documents |-> zip[kept[j]].documents]]]

\* the zip file run_backup returned is given to run_restore, with or
\* without url and key, for a target service that holds all of its
\* collections or none; the failures of the backup count among the
\* failures of the round trip
Handoff ==
    /\ pc = "done"
    /\ loc = <<>>
    /\ IsSome(ret.zip)
    /\ Cardinality(BackupFaults) <= MaxFaults
    /\ \E order \in Orders(DOMAIN TheOf(ret.zip)) :
           archive' = Unzip(TheOf(ret.zip), order)
    /\ url_key_given' \in BOOLEAN
    /\ target' \in Targets(archive')
    /\ pc' = "run_restore"
    /\ log_output' = <<>>
    /\ ret' = [zip |-> None, log |-> <<>>]
    /\ loc' = NoLocals
    /\ wait' = NoWait
    /\ tasks' = [next |-> 1, open |-> NoFunction]
    /\ abandoned' = {}
    /\ faults' = Cardinality(BackupFaults)
    /\ UNCHANGED <<trace, bvars>>

InitRoundTrip == InitBackup /\ service \in RoundTripServices

NextRoundTrip ==
    \/ NextBackup
    \/ Handoff
    \/ NextRestore

SpecRoundTrip == InitRoundTrip /\ [][NextRoundTrip]_vars

-----------------------------------------------------------------------------
(* Claims about wait_for_task *)

\* C1: wait_for_task never returns a record of a non-terminal status: a
\* record it returns has status succeeded, failed or canceled and is the
\* record the last status query was answered with, unchanged; it is still
\* polling only while every answer was enqueued or processing, and returns
\* the record at the first answer whose status is neither
C1_TerminalRecordUnchanged ==
    /\ (wait.returned /\ IsSome(wait.result)) =>
           /\ TheOf(wait.result).status \in {"succeeded", "failed", "canceled"}
           /\ wait.answer.status = "200"
           /\ TheOf(wait.result) = wait.answer.task
    /\ (pc = "wait" /\ wait.polls > 0) =>
           /\ wait.answer.status = "200"
           /\ wait.answer.task.status \in {"enqueued", "processing"}
    /\ (wait.polls > 0 /\ wait.answer.status = "200"
        /\ wait.answer.task.status \notin {"enqueued", "processing"}) =>
           /\ wait.returned
           /\ wait.result = Some(wait.answer.task)

\* a task seen processing at the first query and failed at the second
C1_Witness ==
    /\ wait.returned
    /\ wait.polls = 2
    /\ IsSome(wait.result)
    /\ TheOf(wait.result).status = "failed"
    /\ TheOf(wait.result).taskUid = TheOf(wait.id)

\* what a caller logs when the step of a site has failed
FailureEvent(site) ==
    CASE site \in {"p1_delete", "p2_delete"} -> "Failed to delete index"
      [] site \in {"p1_create", "p2_create"} -> "Failed to create index"
      [] site = "p1_settings" -> "Failed to apply all settings to index"
      [] site = "p1_setting" -> "Failed to apply setting"
      [] site = "p2_settings" -> "Failed to apply settings to index"
      [] site = "p1_patch" -> "Failed to update index"
      [] site = "p1_retry" -> "Failed to add documents on retry"
      [] OTHER -> "Failed to add documents"

\* a status query of wait_for_task is answered with a status other than 200
QueryRefused ==
    /\ pc = "wait"
    /\ wait'.polls = wait.polls + 1
    /\ wait'.answer.status \notin {"200", "exc"}

C2_Step ==
    /\ QueryRefused =>
         /\ wait'.returned
         /\ wait'.result = None
         /\ pc' # "wait"
         /\ Len(log_output') > Len(log_output)
         /\ log_output'[Len(log_output) + 1].ev = FailureEvent(wait.site)
         /\ wait.site \in {"p1_delete", "p1_create"} => loc'.i > loc.i
         /\ wait.site \in {"p2_delete", "p2_create"} =>
                /\ pc' = "done"
                /\ ret'.log = log_output'
                /\ Len(log_output') = Len(log_output) + 1
         /\ wait.site = "p1_patch" => pc' # "p1_retry"
    /\ (pc' = "wait" /\ IsSome(wait'.id)) => TheOf(wait'.id) \notin abandoned'

\* C2: when a status query of wait_for_task is answered with a non-success
\* status, the call returns None at once, the task is never queried again,
\* and the caller logs the failure of the step that created the task and
\* goes on as after a failed step: the index is skipped after a delete or
\* create of pass 1, pass 2 returns after its delete or create, no retry
\* follows the repair
C2_QueryFailureIsStepFailure == [][C2_Step]_vars

\* the query of the task of a create of pass 1 was refused, and the caller
\* logged the failed creation
C2_Witness ==
    /\ wait.returned
    /\ wait.site = "p1_create"
    /\ IsSome(wait.id)
    /\ wait.answer.status = "500"
    /\ Len(log_output) > wait.mark
    /\ log_output[wait.mark + 1].ev = "Failed to create index"

-----------------------------------------------------------------------------
(* Claims about backup_meilisearch *)

\* the number of documents of a sequence of pages
RECURSIVE PagesLen(_)
PagesLen(ps) == IF ps = <<>> THEN 0 ELSE DLen(Head(ps)) + PagesLen(Tail(ps))

\* the document at position p of the pages laid end to end
RECURSIVE PagesAt(_, _)
PagesAt(ps, p) ==
    IF p <= DLen(Head(ps)) THEN DAt(Head(ps), p)
    ELSE PagesAt(Tail(ps), p - DLen(Head(ps)))

\* a page that ends the pagination: empty, or shorter than the page size
LastPage(page) == DLen(page) < limit

\* the list ds holds, document by document, the pages ps laid end to end
SameAsPages(ds, ps) ==
    /\ DLen(ds) = PagesLen(ps)
    /\ \A p \in 1..DLen(ds) : DAt(ds, p) = PagesAt(ps, p)

\* the index whose files were written by the step that led to this state
JustSaved == pc \in {"b_settings", "b_zip"} /\ idx > 1

\* backup_meilisearch ended by an exception
Crashed == pc = "done" /\ ret.log = <<L("Error during backup", "", 0)>>

\* the page requests made for an index, in order
PageReqs(uid) ==
    SelectSeq(trace, LAMBDA r : r.op = "GET documents" /\ r.uid = uid)

\* the service's entry of an index
EntryOf(uid) == CHOOSE e \in {service[j] : j \in 1..Len(service)} : e.uid = uid

\* C3: the documents written to documents.json of a collection are the
\* pages fetched for it, in request order, up to and including the first
\* short or empty page: none dropped, duplicated or reordered
C3_DocumentsArePages ==
    JustSaved =>
        LET uid == indexes[idx - 1].uid
            ps == fetched[uid]
        IN /\ IsSome(files[uid].documents)
           /\ SameAsPages(TheOf(files[uid].documents), ps)
           /\ \A q \in 1..Len(ps) : LastPage(ps[q]) => q = Len(ps)

\* two pages were fetched for alpha, a full one and a short one, and
\* written
C3_Witness ==
    /\ pc = "b_zip"
    /\ "alpha" \in DOMAIN files
    /\ Len(fetched["alpha"]) = 2
    /\ DLen(fetched["alpha"][2]) = limit \div 2
    /\ DLen(TheOf(files["alpha"].documents)) = limit + limit \div 2

\* C4: the page requests of a collection ask for offsets 0, 1000, 2000, ...
\* with limit 1000, none follows a page that was empty or short, and when
\* every one of them was answered with the page asked for, a collection of
\* N documents takes N div 1000 + 1 requests and documents.json holds N
\* documents
C4_PageRequests ==
    \A uid \in DOMAIN fetched :
        LET rs == PageReqs(uid)
            ps == fetched[uid]
            N == EntryOf(uid).n
        IN /\ \A k \in 1..Len(rs) : rs[k].a = (k - 1) * limit /\ rs[k].b = limit
           /\ \A k \in 1..(Len(rs) - 1) : k <= Len(ps) /\ DLen(ps[k]) = limit
           /\ (IsSome(files[uid].documents) /\ Len(ps) = Len(rs))
                 => /\ Len(rs) = N \div limit + 1
                    /\ DLen(TheOf(files[uid].documents)) = N

\* the scenario of the specification: alpha with 1500 documents took two
\* requests, page with none took one and has an empty documents.json
C4_Witness ==
    /\ pc = "done"
    /\ IsSome(ret.zip)
    /\ Len(service) = 2
    /\ service[1].n = limit + limit \div 2
    /\ service[2].n = 0
    /\ Len(PageReqs("alpha")) = 2
    /\ Len(PageReqs("page")) = 1
    /\ Len(fetched["page"]) = 1
    /\ TheOf(TheOf(ret.zip)["page"].documents) = <<>>

\* the answer 200 carrying the items as a bare array, and as {results: [...]}
AsBare(items) == [status |-> "200", body |-> [kind |-> "list", items |-> items]]
AsEnvelope(items) == [status |-> "200", body |-> [kind |-> "results", items |-> items]]

\* C5: whenever the page loop is about to ask for a page, the page the
\* service holds there is normalized to the same list, and leads to the same
\* documents, offset and continue/stop decision, whether it comes as a bare
\* array or as an object with a results field
C5_SameNormalization ==
    pc = "b_page" =>
        LET uid == indexes[idx].uid
            items == SvcPage(service[idx], offset, limit)
            bare == PageTurn(AsBare(items), uid, all_documents, offset)
            env == PageTurn(AsEnvelope(items), uid, all_documents, offset)
        IN /\ NormalizePage(AsBare(items).body, uid).ok
           /\ NormalizePage(AsEnvelope(items).body, uid).ok
           /\ NormalizePage(AsBare(items).body, uid).documents = items
           /\ NormalizePage(AsEnvelope(items).body, uid).documents = items
           /\ bare.all_documents = env.all_documents
           /\ bare.offset = env.offset
           /\ bare.brk = env.brk
           /\ bare.got = env.got

\* a full page came in an envelope, was appended, and the loop goes on
C5_Witness ==
    /\ pc = "b_page"
    /\ docs_response.status = "200"
    /\ docs_response.body.kind = "results"
    /\ DLen(docs_response.body.items) = limit
    /\ DLen(all_documents) = limit
    /\ offset = limit

\* a page request that was refused, or answered with a body that is neither
\* an array nor an object with a results field
FailedPage(r) ==
    /\ r.op = "GET documents"
    /\ \/ r.out \notin {"200", "exc"}
       \/ r.out = "200" /\ r.body \in {"dict", "scalar"}

\* C6: after a page request of a collection has failed, no further page of
\* that collection is asked for, the documents of the earlier pages are
\* what is written to its documents.json, every index listed gets its files,
\* and a run that no exception ends returns an archive holding them
C6_PageFailureContained ==
    \A k \in 1..Len(trace) :
        FailedPage(trace[k]) =>
            LET uid == trace[k].uid IN
            /\ \A m \in (k + 1)..Len(trace) :
                   ~(trace[m].op = "GET documents" /\ trace[m].uid = uid)
            /\ pc # "b_page" \/ indexes[idx].uid # uid
            /\ Len(fetched[uid]) = Len(PageReqs(uid)) - 1
            /\ (JustSaved /\ indexes[idx - 1].uid = uid)
                  => /\ IsSome(files[uid].documents)
                     /\ SameAsPages(TheOf(files[uid].documents), fetched[uid])
            /\ (pc = "done" /\ ~Crashed)
                  => /\ IsSome(ret.zip)
                     /\ \A j \in 1..Len(indexes) :
                          /\ indexes[j].uid \in DOMAIN TheOf(ret.zip)
                          /\ IsSome(TheOf(ret.zip)[indexes[j].uid].documents)
                          /\ IsSome(TheOf(ret.zip)[indexes[j].uid].info)
                     /\ DLen(TheOf(TheOf(ret.zip)[uid].documents))
                          = PagesLen(fetched[uid])

\* the second page of alpha was refused after a full first page, the first
\* page is in alpha's documents.json, and the archive also holds page
C6_Witness ==
    /\ pc = "done"
    /\ IsSome(ret.zip)
    /\ Len(indexes) = 2
    /\ \E k \in 1..Len(trace) : FailedPage(trace[k]) /\ trace[k].uid = "alpha"
                                   /\ trace[k].a = limit
    /\ DLen(TheOf(TheOf(ret.zip)["alpha"].documents)) = limit
    /\ IsSome(TheOf(ret.zip)["page"].documents)

\* C7: when the list of indexes is refused, backup returns no archive and
\* the failure message, and no settings, stats or documents request was
\* made: the list request is the only one
C7_ListFailureFatal ==
    (Len(trace) >= 1 /\ trace[1].out \notin {"200", "exc"}) =>
        /\ pc = "done"
        /\ ret = [zip |-> None, log |-> <<L("Failed to get indexes", "", 0)>>]
        /\ Len(trace) = 1
        /\ files = NoFunction

\* the list request of a service that holds indexes was refused
C7_Witness ==
    /\ pc = "done"
    /\ Len(service) = 2
    /\ Len(trace) = 1
    /\ trace[1].op = "GET /indexes"
    /\ trace[1].out = "500"

\* the entries by which the log would record a failed settings or stats
\* fetch of an index
FetchFailureLogged(r) ==
    \E m \in 1..Len(log_output) :
        /\ log_output[m].uid = r.uid
        /\ log_output[m].ev \in {"Failed to get settings", "Failed to get stats"}

\* a settings or stats fetch of an index that was refused
FailedFetch(r) ==
    r.op \in {"GET settings", "GET stats"} /\ r.out \notin {"200", "exc"}

\* what a refused settings or stats fetch leaves untouched: the run goes on
\* to the pages of the index, no settings.json is written for a refused
\* settings fetch, and a run that no exception ends returns an archive with
\* the documents and the metadata of every index
C8_NonFatal ==
    \A k \in 1..Len(trace) :
        FailedFetch(trace[k]) =>
            LET uid == trace[k].uid IN
            /\ trace[k].op = "GET settings" => files[uid].settings = None
            /\ (k = Len(trace) /\ ~Crashed) => pc \in {"b_stats", "b_page"}
            /\ (pc = "done" /\ ~Crashed)
                  => /\ IsSome(ret.zip)
                     /\ \A j \in 1..Len(indexes) :
                          /\ IsSome(TheOf(ret.zip)[indexes[j].uid].documents)
                          /\ IsSome(TheOf(ret.zip)[indexes[j].uid].info)

\* C8: a refused settings or stats fetch of a collection is non-fatal and
\* is recorded in the log
C8_FetchFailureLogged ==
    /\ C8_NonFatal
    /\ \A k \in 1..Len(trace) : FailedFetch(trace[k]) => FetchFailureLogged(trace[k])


-----------------------------------------------------------------------------
(* Claims about restore_meilisearch *)

\* the add-documents requests of a collection, in order, retries left out
Uploads(uid) ==
    SelectSeq(trace, LAMBDA r : r.op = "POST documents" /\ r.uid = uid
                                /\ r.body # "retry")

\* the add-documents requests of a collection, in order, retries included
AllUploads(uid) ==
    SelectSeq(trace, LAMBDA r : r.op = "POST documents" /\ r.uid = uid)

\* the number of documents archived for a collection
Archived(uid) ==
    IF HasDir(uid) /\ IsSome(DirOf(uid).documents)
    THEN DLen(TheOf(DirOf(uid).documents)) ELSE 0

\* ceil(n / batch_size)
Batches(n) == (n + batch_size - 1) \div batch_size

\* restore_meilisearch returned after its clean-up
Completed ==
    /\ pc = "done"
    /\ log_output # <<>>
    /\ log_output[Len(log_output)].ev = "Restore process completed!"

\* the batch loop of the j-th directory was entered
StageEntered(j) ==
    \E q \in 1..Len(log_output) :
        /\ log_output[q].ev = "Adding batch of documents"
        /\ log_output[q].uid = archive.dirs[j].uid

\* the batch loop of the j-th directory is over
StageDone(j) ==
    IF archive.dirs[j].uid = "documents" THEN Completed
    ELSE loc.i > j \/ Completed

\* the number of documents before the m-th run of a list
RunStart(ds, m) == DLen(SubSeq(ds, 1, m - 1))

\* the list `batch` holds, position by position, the documents at positions
\* from + 1 .. from + len(batch) of `documents`: wherever a run of the one
\* and a run of the other cover a common position, they have the same
\* fields and number their documents alike
SliceOf(batch, documents, from) ==
    /\ from + DLen(batch) <= DLen(documents)
    /\ \A m \in 1..Len(batch), k \in 1..Len(documents) :
         LET bs == from + RunStart(batch, m)
             be == bs + RunLen(batch[m])
             ds == RunStart(documents, k)
             de == ds + RunLen(documents[k])
         IN (bs < de /\ ds < be) =>
                /\ batch[m].fields = documents[k].fields
                /\ batch[m].lo - bs = documents[k].lo - ds

\* C9: in both passes the add-documents requests of a collection with N
\* archived documents are, in order, the batches 0, 1, ...: batch k has
\* offset 1000k and size min(1000, N - 1000k) and is the contiguous slice
\* [1000k, 1000k + 1000) of the documents; a batch loop that was entered and
\* is over has made exactly ceil(N/1000) of them (one for N = 1000, two with
\* the second of size 1 for N = 1001), and none is made for N = 0
C9_Batches ==
    /\ \A j \in 1..Len(archive.dirs) :
         LET uid == archive.dirs[j].uid
             n == Archived(uid)
             ups == Uploads(uid)
         IN /\ Len(ups) <= Batches(n)
            /\ \A k \in 1..Len(ups) :
                 /\ ups[k].a = batch_size * (k - 1)
                 /\ ups[k].b = Min(batch_size, n - ups[k].a)
                 /\ ups[k].b >= 1
            /\ (StageEntered(j) /\ StageDone(j)) => Len(ups) = Batches(n)
    /\ pc \in {"p1_docs", "p2_docs"} =>
         /\ DLen(loc.documents) = Archived(loc.index_uid)
         /\ loc.bi = batch_size * Len(Uploads(loc.index_uid))
         /\ DLen(loc.batch) = Min(batch_size, DLen(loc.documents) - loc.bi)
         /\ SliceOf(loc.batch, loc.documents, loc.bi)
         /\ \A q \in {1, DLen(loc.batch)} :
              DAt(loc.batch, q) = DAt(loc.documents, loc.bi + q)

\* alpha with 1001 documents and page with none, restored to the end: both
\* collections created, two batches for alpha, the second of one document,
\* and no add-documents request for page
C9_Witness ==
    /\ Completed
    /\ Archived("alpha") = batch_size + 1
    /\ Len(Uploads("alpha")) = 2
    /\ Uploads("alpha")[2].b = 1
    /\ HasDir("page") /\ Archived("page") = 0
    /\ Len(AllUploads("page")) = 0
    /\ \A u \in {"alpha", "page"} :
         \E q \in 1..Len(log_output) :
             log_output[q].ev = "Created index" /\ log_output[q].uid = u

\* the places where restore_meilisearch sends a request other than a status
\* query
RequestPlaces ==
    {"p1_check", "p1_delete", "p1_create", "p1_settings", "p1_setting", "p1_docs",
     "p1_patch", "p1_retry", "p2_check", "p2_delete", "p2_create", "p2_settings",
     "p2_docs"}

\* the tasks that are not yet terminal and whose status query has not failed
Outstanding == DOMAIN tasks.open \ abandoned

\* C10: restore has at most one remote operation outstanding: where it
\* sends a request, no task of an earlier request is outstanding, and while
\* it waits, only the task it waits for is; the add-documents requests of a
\* collection come in ascending order of their offsets, a retry repeating
\* the offset of the batch before it
C10_OneOutstanding ==
    /\ pc \in RequestPlaces => Outstanding = {}
    /\ pc = "wait" =>
         Outstanding \subseteq (IF IsSome(wait.id) THEN {TheOf(wait.id)} ELSE {})
    /\ \A j \in 1..Len(archive.dirs) :
         LET ups == AllUploads(archive.dirs[j].uid) IN
         \A k \in 1..(Len(ups) - 1) :
             \/ ups[k + 1].body # "retry" /\ ups[k + 1].a > ups[k].a
             \/ ups[k + 1].body = "retry" /\ ups[k + 1].a = ups[k].a

\* the second batch is about to be sent after the task of the first was
\* seen processing and then succeeded
C10_Witness ==
    /\ pc = "p1_docs"
    /\ loc.bi = batch_size
    /\ wait.site = "p1_docs"
    /\ wait.returned
    /\ wait.polls = 2
    /\ IsSome(wait.result)
    /\ TheOf(wait.result).status = "succeeded"
    /\ Len(Uploads(loc.index_uid)) = 1

-----------------------------------------------------------------------------
(* Claims about the order of the requests and the containment of failures *)

Last(seq) == seq[Len(seq)]

\* the requests made for a collection, in order
ReqsOf(uid) == SelectSeq(trace, LAMBDA r : r.uid = uid)

\* the stage of restore a request belongs to: existence check, delete,
\* create, settings, documents (the repair of `page` is part of the last)
Rank(op) ==
    CASE op = "GET index" -> 0
      [] op = "DELETE index" -> 1
      [] op = "POST index" -> 2
      [] op \in {"PATCH settings", "PUT setting"} -> 3
      [] OTHER -> 4

\* the log has an entry `ev` for the collection
Logged(ev, uid) ==
    \E q \in 1..Len(log_output) : log_output[q].ev = ev /\ log_output[q].uid = uid

\* C11: the requests of a collection come in the order existence check,
\* delete, create, settings, documents, with one check first and at most
\* one delete and one create; a delete follows a check answered 200 and is
\* made for page and documents only; when a create request was made, a
\* settings or documents request is made only once the service has made the
\* collection by that request (its task succeeded); and documents gets
\* settings and documents only after a create request of this run
C11_RequestOrder ==
    \A j \in 1..Len(archive.dirs) :
        LET uid == archive.dirs[j].uid
            rs == ReqsOf(uid)
        IN /\ rs # <<>> => rs[1].op = "GET index"
           /\ \A k \in 1..(Len(rs) - 1) :
                /\ Rank(rs[k].op) <= Rank(rs[k + 1].op)
                /\ Rank(rs[k + 1].op) <= 2 => Rank(rs[k].op) < Rank(rs[k + 1].op)
                /\ rs[k + 1].op = "DELETE index" =>
                       rs[k].out = "200" /\ uid \in {"page", "documents"}
           /\ \A k \in 1..Len(rs) :
                Rank(rs[k].op) >= 3 =>
                    /\ uid = "documents" => \E m \in 1..(k - 1) : rs[m].op = "POST index"
                    /\ (\E m \in 1..(k - 1) : rs[m].op = "POST index") => target[uid].made

\* page was held by the target: it was checked, deleted, created, given its
\* settings and its document, in this order
C11_Witness ==
    /\ pc = "done"
    /\ Len(ReqsOf("page")) = 5
    /\ [k \in 1..5 |-> ReqsOf("page")[k].op] =
           <<"GET index", "DELETE index", "POST index", "PATCH settings",
             "POST documents">>
    /\ target["page"].made
    /\ target["page"].docs = {<<0, 1>>}

\* the last request was refused by the service
JustRefused ==
    /\ trace # <<>>
    /\ Last(trace).op # "GET index"
    /\ Last(trace).out \notin {"200", "201", "202", "exc"}

\* the last call of wait_for_task has returned, and its task has not
\* succeeded: it failed, was canceled, or its status query was refused
TaskNotOk ==
    /\ wait.returned
    /\ ~(IsSome(wait.result) /\ TheOf(wait.result).status = "succeeded")

\* the delete or the create of documents in pass 2 has failed
P2SetupFailed ==
    \/ /\ JustRefused
       /\ Last(trace).uid = "documents"
       /\ Last(trace).op \in {"DELETE index", "POST index"}
    \/ TaskNotOk /\ wait.site \in {"p2_delete", "p2_create"}

\* C12: once the delete or the create of documents in pass 2 has failed by
\* a refused request, a failed or canceled task or a refused status query,
\* restore_meilisearch has returned its log, ending with the failure: the
\* failed request is the last request made, and no settings or documents
\* request was made for documents
C12_Pass2SetupFatal ==
    P2SetupFailed =>
        /\ pc = "done"
        /\ ret.log = log_output
        /\ Last(log_output).uid = "documents"
        /\ Last(log_output).ev \in {"Failed to delete index", "Failed to create index"}
        /\ Last(trace).uid = "documents"
        /\ Last(trace).op \in {"DELETE index", "POST index"}
        /\ \A k \in 1..Len(trace) :
               trace[k].uid = "documents" => Rank(trace[k].op) <= 2

\* the task of the create of documents failed: restore returned although
\* the archive holds settings and a document for documents
C12_Witness ==
    /\ P2SetupFailed
    /\ wait.site = "p2_create"
    /\ IsSome(wait.result)
    /\ TheOf(wait.result).status = "failed"
    /\ Archived("documents") = 1
    /\ IsSome(DirOf("documents").settings)
    /\ pc = "done"

\* the delete or the create of a collection of pass 1 has just failed
P1SetupFailed ==
    /\ trace # <<>>
    /\ Last(trace).uid # "documents"
    /\ Last(trace).op \in {"DELETE index", "POST index"}
    /\ \/ JustRefused
       \/ TaskNotOk /\ wait.at = Len(trace)

\* the positions in the archive of the collections of pass 1 after the j-th
RestOfPass1(j) ==
    {k \in (j + 1)..Len(archive.dirs) : archive.dirs[k].uid # "documents"}

\* the delete or the create of the collection was logged as failed
SetupFailureLogged(uid) ==
    Logged("Failed to delete index", uid) \/ Logged("Failed to create index", uid)

\* C13: when the delete of page or the create of a collection fails in
\* pass 1, restore goes on with the next collection of pass 1, or with
\* pass 2 for documents, or ends after its clean-up where nothing is left;
\* no settings or documents request is ever made for the skipped
\* collection; and a run that returns without an exception has entered
\* every collection of the archive
C13_Pass1SetupSkipsOne ==
    /\ P1SetupFailed =>
           LET uid == Last(trace).uid
               j == CHOOSE k \in 1..Len(archive.dirs) : archive.dirs[k].uid = uid
               rest == RestOfPass1(j)
           IN /\ SetupFailureLogged(uid)
              /\ IF rest # {}
                 THEN /\ pc = "p1_check"
                      /\ loc.index_uid =
                             archive.dirs[CHOOSE k \in rest : \A m \in rest : k <= m].uid
                 ELSE IF HasDir("documents")
                 THEN pc = "p2_check" /\ loc.index_uid = "documents"
                 ELSE Completed
    /\ \A j \in 1..Len(archive.dirs) :
           LET uid == archive.dirs[j].uid IN
           /\ uid # "documents" /\ SetupFailureLogged(uid) =>
                  \A k \in 1..Len(trace) :
                      trace[k].uid = uid => Rank(trace[k].op) <= 2
           /\ /\ pc = "done"
              /\ \E m \in 1..Len(archive.dirs) :
                     /\ archive.dirs[m].uid # "documents"
                     /\ SetupFailureLogged(archive.dirs[m].uid)
              /\ \A k \in 1..Len(trace) : trace[k].out # "exc"
              => ReqsOf(uid) # <<>>

\* the create of one collection failed, and a later collection of the
\* archive was created in the same run, which ended after its clean-up
C13_Witness ==
    /\ Completed
    /\ \E j, k \in 1..Len(archive.dirs) :
           /\ j < k
           /\ Logged("Failed to create index", archive.dirs[j].uid)
           /\ archive.dirs[j].uid # "documents"
           /\ target[archive.dirs[k].uid].made

\* the task of a batch upload to page has just ended without success
FailedPageUpload ==
    /\ TaskNotOk
    /\ wait.site = "p1_docs"
    /\ wait.at = Len(trace)
    /\ Last(trace).uid = "page"

\* C14 as stated: whenever the task of a batch upload to page ends without
\* success, restore goes on to patch the primary key of page
C14_RepairOnAnyFailure == FailedPageUpload => pc = "p1_patch"

\* C14: when the task of a batch upload to page ends without success,
\* restore patches the primary key of page if and only if the failed task
\* names the primary key in its error; when the task of the patch has
\* ended, the same batch is submitted again if and only if the patch
\* succeeded; a batch is submitted again only right after such a patch,
\* which follows the first upload of that batch, so once at most
C14_RepairOnPrimaryKeyFailure ==
    /\ FailedPageUpload =>
           (pc = "p1_patch" <=>
                IsSome(wait.result) /\ TheOf(wait.result).error = "primary_key")
    /\ wait.returned /\ wait.site = "p1_patch" /\ wait.at = Len(trace) =>
           /\ pc = "p1_retry" <=> ~TaskNotOk
           /\ pc = "p1_retry" =>
                  /\ loc.bi = trace[Len(trace) - 1].a
                  /\ DLen(loc.batch) = trace[Len(trace) - 1].b
                  /\ SliceOf(loc.batch, loc.documents, loc.bi)
    /\ \A k \in 1..Len(trace) :
           /\ trace[k].op = "PATCH index" =>
                  /\ k >= 2
                  /\ trace[k].uid = "page" /\ trace[k].body = "id"
                  /\ trace[k - 1] = Req("POST documents", "page", trace[k - 1].a,
                                        trace[k - 1].b, trace[k - 1].out, "")
                  /\ trace[k - 1].out \in {"200", "201", "202"}
           /\ trace[k].body = "retry" =>
                  /\ k >= 3
                  /\ trace[k - 1].op = "PATCH index"
                  /\ trace[k - 1].out \in {"200", "202"}
                  /\ trace[k] = [trace[k - 2] EXCEPT !.out = trace[k].out,
                                                     !.body = "retry"]

\* a batch upload to page failed on the primary key, the patch succeeded,
\* and the batch submitted again was added
C14_Witness ==
    /\ Len(trace) >= 3
    /\ Last(trace).body = "retry"
    /\ trace[Len(trace) - 1].op = "PATCH index"
    /\ trace[Len(trace) - 2].op = "POST documents"
    /\ wait.site = "p1_retry"
    /\ wait.returned
    /\ ~TaskNotOk

\* the categories a fallback applies for a collection: those of the seven,
\* in their order, that the archived settings hold with a value
Applicable(uid) ==
    LET settings == TheOf(DirOf(uid).settings) IN
    SelectSeq(<<"displayedAttributes", "filterableAttributes", "sortableAttributes",
                "rankingRules", "stopWords", "synonyms", "distinctAttribute">>,
              LAMBDA c : c \in DOMAIN settings /\ settings[c] # "empty")

\* the requests that set one category of a collection, in order
Puts(uid) == SelectSeq(trace, LAMBDA r : r.op = "PUT setting" /\ r.uid = uid)

\* C15: categories are set one by one only for a collection of pass 1
\* whose request for all settings at once was refused; the categories set
\* so far are then the first of the applicable ones, each once and in
\* order, whatever became of the earlier ones; while some are left,
\* restore stands at the request for the next one or waits for the task of
\* the last one, so every applicable category is attempted
C15_SettingsFallback ==
    \A j \in 1..Len(archive.dirs) :
        LET uid == archive.dirs[j].uid
            puts == Puts(uid)
            refused == \E k \in 1..Len(trace) :
                           /\ trace[k].uid = uid
                           /\ trace[k].op = "PATCH settings"
                           /\ trace[k].out \notin {"200", "202", "exc"}
        IN /\ puts # <<>> => refused /\ uid # "documents"
           /\ refused /\ uid # "documents" =>
                  LET expected == Applicable(uid) IN
                  /\ Len(puts) <= Len(expected)
                  /\ \A q \in 1..Len(puts) : puts[q].body = expected[q]
                  /\ Len(puts) < Len(expected) =>
                         /\ loc.index_uid = uid
                         /\ \/ /\ pc = "p1_setting"
                               /\ setting_types[loc.st] = expected[Len(puts) + 1]
                            \/ /\ pc = "wait"
                               /\ wait.site = "p1_setting"
                               /\ wait.at = Len(trace)
                               /\ Last(trace).op = "PUT setting"
                  /\ pc = "wait" /\ wait.site = "p1_setting" =>
                         /\ Last(trace).out \in {"200", "202"}
                         /\ IsSome(wait.id)

\* the request for all settings was refused, then the request for the first
\* applicable category, and the second applicable category was applied
C15_Witness ==
    /\ Len(trace) >= 3
    /\ trace[Len(trace) - 2].op = "PATCH settings"
    /\ trace[Len(trace) - 2].out = "500"
    /\ trace[Len(trace) - 1].op = "PUT setting"
    /\ trace[Len(trace) - 1].out = "500"
    /\ Last(trace).op = "PUT setting"
    /\ Last(trace).body = "rankingRules"
    /\ wait.site = "p1_setting"
    /\ wait.returned
    /\ ~TaskNotOk
    /\ "rankingRules" \in target[Last(trace).uid].settings

\* C16 as stated: after a run of restore that got as far as documents,
\* whatever its outcome, documents has no embedders on the target service
C16_NoEmbeddersWhateverOutcome ==
    pc = "done" /\ ReqsOf("documents") # <<>> =>
        "embedders" \notin target["documents"].settings

\* C16: restore never sends embedders in a settings request for documents;
\* documents has embedders on the target service only where it is still
\* the collection held before the run, which restore neither deleted nor
\* made again, and then the run does not complete; after a run that
\* completed with documents in the archive, documents is a collection made
\* in this run and has no embedders
C16_NoEmbeddersOnRebuilt ==
    /\ \A k \in 1..Len(trace) :
           trace[k].uid = "documents" /\ Rank(trace[k].op) = 3 =>
               trace[k].body # "embedders"
    /\ "embedders" \in target["documents"].settings =>
           /\ target["documents"] = Present("documents")
           /\ ~Completed
    /\ Completed /\ HasDir("documents") =>
           /\ target["documents"].made
           /\ "embedders" \notin target["documents"].settings

\* documents was held with embedders before the run and archived with
\* embedders; it was deleted, made again, and its other settings applied
C16_Witness ==
    /\ Completed
    /\ HasDir("documents")
    /\ IsSome(DirOf("documents").settings)
    /\ "embedders" \in DOMAIN TheOf(DirOf("documents").settings)
    /\ \E k \in 1..Len(trace) :
           /\ trace[k].uid = "documents"
           /\ trace[k].op = "DELETE index"
    /\ target["documents"].made
    /\ target["documents"].settings = {"rankingRules", "stopWords"}

\* restore is about to upload the batch in loc.batch to a collection of
\* pass 1, or has uploaded it and is at work on that upload
AtUpload ==
    \/ pc \in {"p1_docs", "p1_patch", "p1_retry"}
    \/ pc = "wait" /\ wait.site \in {"p1_docs", "p1_patch", "p1_retry"}

\* C17: the batch uploaded to page holds, position by position, the archived
\* documents of page, where a document without id and with _meilisearch_id
\* has id added with the value of its _meilisearch_id and every other
\* document is as archived; the batch uploaded to another collection of
\* pass 1 holds the archived documents unchanged
C17_PageIdFromLegacy ==
    AtUpload =>
        LET uid == loc.index_uid
            archived == TheOf(DirOf(uid).documents)
            Repaired(a) ==
                IF "id" \notin DOMAIN a /\ "_meilisearch_id" \in DOMAIN a
                THEN [f \in DOMAIN a \cup {"id"} |->
                          IF f = "id" THEN a["_meilisearch_id"] ELSE a[f]]
                ELSE a
            expected == IF uid = "page"
                        THEN [j \in 1..Len(archived) |->
                                  [archived[j] EXCEPT !.fields = Repaired(@)]]
                        ELSE archived
        IN /\ uid # "documents"
           /\ SliceOf(loc.batch, expected, loc.bi)
           /\ \A q \in {1, DLen(loc.batch)} :
                  LET a == DAt(archived, loc.bi + q) IN
                  DAt(loc.batch, q) = IF uid = "page" THEN Repaired(a) ELSE a

\* a batch uploaded to page whose first document was archived without id
\* and carries the value of its _meilisearch_id as id, and whose second
\* document was archived with id
C17_Witness ==
    /\ pc = "wait"
    /\ wait.site = "p1_docs"
    /\ loc.index_uid = "page"
    /\ loc.bi = 0
    /\ DLen(loc.batch) >= 2
    /\ "id" \notin DOMAIN DAt(TheOf(DirOf("page").documents), 1)
    /\ DAt(loc.batch, 1)["id"] = <<"_meilisearch_id", 1>>
    /\ DAt(loc.batch, 2) = DAt(TheOf(DirOf("page").documents), 2)

\* C19 as stated, for restore: after a run in which a request met a network
\* error, the log returned to the caller holds every entry accumulated by
\* restore_meilisearch, and one more for the failure
C19_LogSurvivesNetworkError ==
    /\ pc = "done"
    /\ \E k \in 1..Len(trace) : trace[k].out = "exc"
    => /\ ret.log = log_output
       /\ \E q \in 1..Len(ret.log) :
              ret.log[q].ev \in {"Error processing settings file",
                                 "Error applying setting",
                                 "Error adding documents batch"}

\* a batch upload, or the patch of the primary key made for one, has just
\* failed: the request was refused, or its task has not succeeded
BatchFailed ==
    /\ trace # <<>>
    /\ Last(trace).op \in {"POST documents", "PATCH index"}
    /\ \/ JustRefused
       \/ TaskNotOk /\ wait.at = Len(trace)

\* C20: right after a batch upload has failed, in pass 1 or in pass 2, by a
\* refused request, a failed or canceled task or a refused status query,
\* restore stands at the upload of the next batch of the same collection,
\* which begins 1000 documents further on; after the last batch it stands
\* at the next collection of pass 1, or at documents in pass 2, or has
\* completed after its clean-up; only an upload to page that failed on the
\* primary key is followed by the patch first
C20_BatchFailureContained ==
    BatchFailed =>
        LET uid == Last(trace).uid
            j == CHOOSE k \in 1..Len(archive.dirs) : archive.dirs[k].uid = uid
            rest == RestOfPass1(j)
        IN IF /\ uid = "page"
              /\ Last(trace) = Req("POST documents", "page", Last(trace).a,
                                   Last(trace).b, Last(trace).out, "")
              /\ ~JustRefused
              /\ IsSome(wait.result)
              /\ TheOf(wait.result).error = "primary_key"
           THEN pc = "p1_patch"
           ELSE IF Len(Uploads(uid)) < Batches(Archived(uid))
           THEN /\ pc = IF uid = "documents" THEN "p2_docs" ELSE "p1_docs"
                /\ loc.index_uid = uid
                /\ loc.bi = batch_size * Len(Uploads(uid))
                /\ DLen(loc.batch) = Min(batch_size, Archived(uid) - loc.bi)
           ELSE IF uid = "documents" THEN Completed
           ELSE IF rest # {}
           THEN /\ pc = "p1_check"
                /\ loc.index_uid =
                       archive.dirs[CHOOSE k \in rest : \A m \in rest : k <= m].uid
           ELSE IF HasDir("documents")
           THEN pc = "p2_check" /\ loc.index_uid = "documents"
           ELSE Completed

\* documents with 1001 archived documents: the upload of the first batch
\* was refused, the second batch of one document was added, and the run
\* completed
C20_Witness ==
    /\ Completed
    /\ Len(Uploads("documents")) = 2
    /\ Uploads("documents")[1].out = "500"
    /\ Uploads("documents")[2].a = batch_size
    /\ target["documents"].docs = {<<batch_size, 1>>}

-----------------------------------------------------------------------------
(* Claims about a backup followed by a restore *)

\* the number of documents a collection holds after the batches added
RECURSIVE Held(_)
Held(docs) ==
    IF docs = {} THEN 0
    ELSE LET d == CHOOSE x \in docs : TRUE IN d[2] + Held(docs \ {d})

\* every request of the backup was answered 200, the pages in one of the
\* two shapes; no request of the restore was refused, no task failed; and
\* the target service held none of the collections when asked
CleanRoundTrip ==
    /\ loc # <<>>
    /\ faults = 0
    /\ \A k \in 1..Len(trace) :
           /\ trace[k].out \notin {"500", "exc"}
           /\ trace[k].op = "GET documents" => trace[k].body \in {"list", "results"}
           /\ trace[k].op = "GET index" => trace[k].out = "404"

\* C18: a backup in which every request succeeded, restored with url and
\* key to a service that held none of its collections, with every request
\* and task succeeding, runs to its end, and then every collection of the
\* source other than documents is held by the target with as many documents
\* as the source holds and with the categories of settings of the source
C18_RoundTrip ==
    /\ CleanRoundTrip /\ pc = "done" /\ url_key_given /\ service # <<>> => Completed
    /\ CleanRoundTrip /\ Completed =>
           \A j \in 1..Len(service) :
               LET uid == service[j].uid IN
               uid # "documents" =>
                   /\ target[uid].exists
                   /\ target[uid].made
                   /\ Held(target[uid].docs) = service[j].n
                   /\ target[uid].settings = DOMAIN SvcSettings(uid)

\* a source collection with 1001 documents, backed up in two pages and
\* restored in two batches
C18_Witness ==
    /\ CleanRoundTrip
    /\ Completed
    /\ Len(service) = 1
    /\ service[1].n = limit + 1
    /\ Len(fetched[service[1].uid]) = 2
    /\ target[service[1].uid].docs = {<<0, batch_size>>, <<batch_size, 1>>}
    /\ target[service[1].uid].settings = {"rankingRules", "stopWords"}

\* C21: every request of a backup is a GET of the list of indexes, of
\* settings, of stats or of a page of documents; a restore asks for the
\* deletion of page and documents only, and each such request comes right
\* after an existence check of that collection that was answered 200
C21_DeletesOnlyRebuilt ==
    \A k \in 1..Len(trace) :
        /\ loc = <<>> =>
               trace[k].op \in {"GET /indexes", "GET settings", "GET stats",
                                "GET documents"}
        /\ trace[k].op = "DELETE index" =>
               /\ trace[k].uid \in {"page", "documents"}
               /\ k >= 2
               /\ trace[k - 1] = Req("GET index", trace[k].uid, 0, 0, "200", "")

\* a backup of two collections was restored to a service that held both:
\* page was deleted after its check, alpha was checked and not deleted
C21_Witness ==
    /\ Completed
    /\ \E k \in 1..Len(trace) : trace[k].op = "GET documents"
    /\ \E k \in 1..Len(trace) : trace[k].op = "DELETE index" /\ trace[k].uid = "page"
    /\ \E k \in 1..Len(trace) : trace[k] = Req("GET index", "alpha", 0, 0, "200", "")

-----------------------------------------------------------------------------
(* Claims about the archive restore_meilisearch is given *)

\* C22: with an archive that has no meilisearch_backup directory at its top,
\* restore makes no request at all, and run_restore, given url, key and
\* file, returns the message that the directory could not be found
C22_NoRootNoRequest ==
    ~archive.root =>
        /\ trace = <<>>
        /\ pc \in {"run_restore", "done"}
        /\ pc = "done" /\ url_key_given =>
               ret.log = <<L("Error: Could not find meilisearch_backup directory",
                             "", 0)>>

\* run_restore has returned on an archive without the directory
C22_Witness ==
    /\ ~archive.root
    /\ url_key_given
    /\ pc = "done"
    /\ log_output = <<L("Extracting backup", "", 0)>>

\* C23 as stated: an archive of the flat convention, given to run_restore
\* with url and key, has its collections created by the time restore returns
C23_FlatArchiveRestored ==
    /\ archive.flat # <<>>
    /\ url_key_given
    /\ pc = "done"
    => \A j \in 1..Len(archive.flat) :
           \E k \in 1..Len(trace) :
               trace[k].op = "POST index" /\ trace[k].uid = archive.flat[j]

-----------------------------------------------------------------------------
(* Claims about the requests restore_meilisearch may make *)

\* C24: a patch of the primary key is requested for page only; a batch is
\* submitted a second time for page only, right after a patch request whose
\* task ended succeeded, with the offset and the size of the submission
\* before that patch; and a first submission of a batch has an offset
\* beyond every batch submitted to that collection before, so that a batch
\* is submitted twice at most, and once at most for a collection other than
\* page and for documents in pass 2
C24_BatchAtMostTwice ==
    LET n == Len(trace)
        Sent(uid, a) ==
            {k \in 1..n : /\ trace[k].op = "POST documents"
                          /\ trace[k].uid = uid
                          /\ trace[k].a = a}
    IN
    /\ pc = "p1_retry" =>
           /\ loc.index_uid = "page"
           /\ wait.site = "p1_patch" /\ wait.returned /\ wait.at = n
           /\ IsSome(wait.result) /\ TheOf(wait.result).status = "succeeded"
    /\ pc = "p1_patch" => loc.index_uid = "page"
    /\ \A k \in 1..n :
           /\ trace[k].op = "PATCH index" => trace[k].uid = "page"
           /\ trace[k].op = "POST documents" =>
                  /\ Cardinality(Sent(trace[k].uid, trace[k].a)) <= 2
                  /\ trace[k].uid # "page" =>
                         /\ trace[k].body # "retry"
                         /\ Sent(trace[k].uid, trace[k].a) = {k}
                  /\ trace[k].body = "retry" =>
                         /\ k >= 3
                         /\ trace[k - 1].op = "PATCH index"
                         /\ trace[k - 2].op = "POST documents"
                         /\ trace[k - 2].body = ""
                         /\ trace[k - 2].a = trace[k].a
                         /\ trace[k - 2].b = trace[k].b
                  /\ trace[k].body = "" =>
                         \A j \in 1..(k - 1) :
                             trace[j].op = "POST documents"
                             /\ trace[j].uid = trace[k].uid
                             => trace[j].a < trace[k].a

\* the first batch of page was submitted twice, the second time refused,
\* and restore went on to submit the second batch
C24_Witness ==
    /\ Len(trace) >= 4
    /\ Last(trace) = Req("POST documents", "page", batch_size, 1,
                         Last(trace).out, "")
    /\ trace[Len(trace) - 1] = Req("POST documents", "page", 0, batch_size,
                                   "500", "retry")

\* C25 as stated: restore stands at a settings or documents request of
\* pass 1 only for a collection whose existence check was answered 200 or
\* that a create request of this run has made
C25_OnlyToExisting ==
    pc \in {"p1_settings", "p1_setting", "p1_docs"} =>
        \/ loc.check_status = "200"
        \/ target[loc.index_uid].made

\* C26: the categories of a collection are set one by one exactly when the
\* request for all its settings at once was answered with a status other
\* than 200 and 202, and never for documents; when that request was accepted
\* and its task failed, was canceled, or had its status query refused or
\* broken off, restore goes on to the documents of the collection without a
\* request for a category, and the service has none of the settings; in
\* pass 2 a refused request and a failed task both lead on to the documents
C26_FallbackOnRefusalOnly ==
    LET n == Len(trace)
        ended == wait.returned \/ wait.answer.status = "exc"
        notOk == /\ ended
                 /\ wait.at = n
                 /\ ~(IsSome(wait.result) /\ TheOf(wait.result).status = "succeeded")
    IN
    /\ \A j \in 1..Len(archive.dirs) :
           LET uid == archive.dirs[j].uid
               refused == \E k \in 1..n :
                              /\ trace[k].uid = uid
                              /\ trace[k].op = "PATCH settings"
                              /\ trace[k].out \notin {"200", "202", "exc"}
               entered == Logged("Trying to apply settings individually", uid)
           IN /\ entered <=> refused /\ uid # "documents"
              /\ (\E k \in 1..n : trace[k].op = "PUT setting" /\ trace[k].uid = uid)
                 => entered
    /\ n >= 1 /\ Last(trace).op = "PATCH settings" /\ Last(trace).uid # "documents"
       /\ ~JustRefused /\ pc # "wait" =>
           LET uid == Last(trace).uid
               d == DirOf(uid)
           IN /\ pc # "p1_setting"
              /\ IsSome(d.documents) /\ DLen(TheOf(d.documents)) > 0 =>
                     pc = "p1_docs" /\ loc.index_uid = uid /\ loc.bi = 0
              /\ notOk => target[uid].settings = {}
    /\ n >= 1 /\ Last(trace).op = "PATCH settings" /\ Last(trace).uid = "documents"
       /\ Last(trace).out # "exc" /\ pc # "wait" /\ (ended => wait.answer.status # "exc") =>
           /\ pc \in {"p2_docs", "done"}
           /\ LET d == DirOf("documents") IN
              IsSome(d.documents) /\ DLen(TheOf(d.documents)) > 0 =>
                  pc = "p2_docs" /\ loc.bi = 0

\* the request for all settings of a collection was accepted and its task
\* failed; its first batch of documents was then added, and the service
\* holds the documents and none of the settings
C26_Witness ==
    /\ Len(trace) >= 2
    /\ Last(trace).op = "POST documents"
    /\ trace[Len(trace) - 1].op = "PATCH settings"
    /\ trace[Len(trace) - 1].out = "202"
    /\ trace[Len(trace) - 1].uid = Last(trace).uid
    /\ Last(trace).uid # "documents"
    /\ Logged("Failed to apply all settings to index", Last(trace).uid)
    /\ target[Last(trace).uid].settings = {}
    /\ target[Last(trace).uid].docs # {}

-----------------------------------------------------------------------------
(* Claims about the end of restore_meilisearch *)

\* C27: with tasks that end, or whose status query fails, after finitely
\* many queries, run_restore returns, so that every call of wait_for_task
\* on the way has returned or raised; and a status query answered with a
\* task that is enqueued or processing never ends a call of wait_for_task,
\* however many queries came before
C27_RestoreTerminates ==
    /\ <>(pc = "done")
    /\ [][pc = "wait" /\ wait'.answer.status = "200"
          /\ ~Terminal(wait'.answer.task.status)
          => pc' = "wait" /\ ~wait'.returned /\ wait'.polls > wait.polls]_vars

\* restore ran to its end through a call of wait_for_task that asked more
\* than once, and a call that a refused status query ended
C27_Witness ==
    /\ Completed
    /\ wait.polls >= 2
    /\ wait.returned
    /\ abandoned # {}

====
